---- MODULE Spec2Model ----
(***************************************************************************)
(* Event-processing core of the HubSpot -> NetSuite simulator:             *)
(*   - the idempotency ledger   (src/src/services/idempotency.service.ts)  *)
(*   - the dedup/ordering cache (src/unnamed/part_002, RedisCacheService)  *)
(*   - the circuit breaker      (src/src/services/netsuite.service.ts)     *)
(*   - the deal webhook entry   (src/unnamed/part_004, WebhookController)  *)
(*   - the line-item workflows  (src/unnamed/part_004, WebhookController)  *)
(*   - the price override       (src/unnamed/part_004, handlePriceChange)  *)
(*   - the line-item mapping    (src/src/services/validation.service.ts)   *)
(* Every await of the TypeScript code is a point where another request may *)
(* run, so every asynchronous method is split into one action per await.   *)
(***************************************************************************)
EXTENDS Integers, Sequences, FiniteSets, TLC

VARIABLES
  \* ---- idempotency ledger ----
  store,        \* Redis: idempotency:<key> -> record
  lpc,          \* position of each checkIdempotency call
  lkey,         \* the key each call was given
  lret,         \* the IdempotencyResult each call returned
  opCalls,      \* history: how often each call invoked operation()
  firstOutcome, \* history: outcome of the call's first operation()
  lastOutcome,  \* outcome of the call's latest operation() (result / error)
  caught,       \* the error the inner catch (line 110) holds
  faultAt,      \* history: the Redis command of the call that threw
  readRec,      \* history: the record the call's GET returned
  writes,       \* history: how many Redis writes the call made
  removed,      \* history: a record expired (TTL) since the start
  cleanups,     \* cleanupExpiredIdempotencyKeys runs so far
  \* ---- dedup / ordering cache ----
  cacheReady,   \* RedisCacheService.isReady()
  cache,        \* Redis: webhook:<hsId>-<hsProperty> -> cached request
  cpc,          \* position of each checkCacheStatus call
  cev,          \* the event each call was given, while the call runs
  cres,         \* what the call returned
  cfault,       \* history: the cache command of the call that was lost
  seenMax,      \* history: newest occurredAt accepted per key in this TTL window
  \* ---- circuit breaker (RetryService) ----
  circuitBreakerStates,  \* serviceName -> CLOSED | OPEN | HALF_OPEN
  failureCounts,         \* serviceName -> number
  lastFailureTimes,      \* serviceName -> Date.now() of the last failure
  now,          \* Date.now()
  bpc,          \* position of each executeWithCircuitBreaker call
  bsvc,         \* serviceName of the call
  bstate,       \* the call's local state (line 459), while it awaits
  bcount,       \* the call's local failureCount (line 460), while it awaits
  bres,         \* how the call ended: rejected | ok | failed
  started,      \* number of calls begun so far
  consec,       \* history: operation failures per service since its last success
  inWindow,     \* history: the call began after Threshold consecutive
                \* failures, less than Timeout after the last failure
  probeFailedAt,\* history: when a half-open call of the service last failed
                \* (-1: never)
  \* ---- retry (RetryService.executeWithRetry) ----
  rpc,          \* position of the executeWithRetry call
  rmax,         \* config.maxRetries of the call
  rattempt,     \* the loop variable attempt
  rlastError,   \* the local lastError
  rret,         \* how the call ended: a value returned or an error thrown
  rhist,        \* history: the outcomes of the call's invocations of operation()
  \* ---- deal webhook entry point ----
  hsDeals,      \* HubSpot: deal id -> deal properties
  hsCompanies,  \* HubSpot: deal id -> associated companies
  opportunities,\* NetSuite: opportunity id -> opportunity (ids are 1, 2, ...)
  hpc,          \* position of each handleDealCreation request
  hleft,        \* events of the request's body not yet looked at
  hev,          \* the event the request is processing
  hcompany,     \* dealValidation.dealCompanies of the running sync
  hprops,       \* dealProperties of the running sync (line 1063)
  hopp,         \* opportunityId of the running sync (0: none)
  hstatus,      \* HTTP status the request was answered with (0: not yet)
  hret,         \* outcome of the request's latest syncDealToNetSuite
  hthrew,       \* history: a sync of the request has thrown
  hbad,         \* history: the request's body held an element that is no object
  erpWrites,    \* history: NetSuite opportunity writes per webhook event
  hadmitted,    \* body elements of all requests taken up so far
                \* (0, 1, or 2 for more than one)
  \* ---- line-item workflows ----
  lipc,         \* position of the line-item / quote request
  lisource,     \* the workflow the request runs
  lievent,      \* the request body
  lifetch,      \* HubSpot: how the fetch of each line item of the deal ends
  liresp,       \* what checkItemDealValidity returned
  liitems,      \* itemsData.items of parseItems
  lipatch,      \* history: the patchOpportunityItems call of the request
  liquit,       \* history: why the workflow returned early ("" : it did not)
  listatus,     \* HTTP status the request was answered with (0: not yet)
  lilookups,    \* history: lookups of the opportunity id the workflow made
  linow,        \* the time of the line-item requests, in seconds
  mohaveSetAt,  \* when the mohavePriceChange marker of the item was stored
  lipriceAt,    \* history: when the latest price change of the item came in
  limargin,     \* history: the price change before the margin change at hand
  lirequests,   \* line-item requests taken up so far
  \* ---- line-item mapping ----
  mpc,          \* idle, or done once the call returned
  mitems,       \* the line items the call was given
  mcleaned,     \* the items after validateAndCleanLineItem (the pipeline)
  msorted,      \* sortedItems of transformLineItemsToOpportunityItems
  mout,         \* the opportunity items returned
  \* ---- line-item aggregation ----
  aggpc,        \* idle, or done once getDealItemsDataForProcessing returned
  aggargs,      \* the arguments of the call
  aggdata,      \* what the call returned, and the fetches it made
  \* ---- price override ----
  pcpc,         \* position of the handlePriceChange call
  pcargs,       \* the deal's contract id and the arguments of the call
  pcmarkers,    \* Redis: the items whose mohavePriceChange marker was stored
  hsRequests,   \* history: the PATCH requests sent to HubSpot
  pcthrew,      \* the call ended by throwing
  pccalls       \* handlePriceChange calls begun so far

ledgerVars == <<store, lpc, lkey, lret, opCalls, firstOutcome,
                lastOutcome, caught, faultAt, readRec, writes, removed,
                cleanups>>

cacheVars == <<cacheReady, cache, cpc, cev, cres, cfault, seenMax>>

breakerVars == <<circuitBreakerStates, failureCounts, lastFailureTimes, now,
                 bpc, bsvc, bstate, bcount, bres, started, consec, inWindow,
                 probeFailedAt>>

hookVars == <<hsDeals, hsCompanies, opportunities, hpc, hleft, hev, hcompany,
              hprops, hopp, hstatus, hret, hthrew, hbad, erpWrites, hadmitted>>

retryVars == <<rpc, rmax, rattempt, rlastError, rret, rhist>>

markerVars == <<linow, mohaveSetAt, lipriceAt, limargin, lirequests>>

lineItemVars == <<lipc, lisource, lievent, lifetch, liresp, liitems, lipatch,
                  liquit, listatus, lilookups, markerVars>>

mappingVars == <<mpc, mitems, mcleaned, msorted, mout>>

aggregationVars == <<aggpc, aggargs, aggdata>>

priceChangeVars == <<pcpc, pcargs, pcmarkers, hsRequests, pcthrew, pccalls>>

vars == <<ledgerVars, cacheVars, breakerVars, retryVars, hookVars,
          lineItemVars, mappingVars, aggregationVars, priceChangeVars>>

\* What the actions of one component leave alone.
outsideLedger == <<cacheVars, breakerVars, retryVars, hookVars, lineItemVars,
  mappingVars,
  aggregationVars, priceChangeVars>>
outsideCache == <<ledgerVars, breakerVars, retryVars, hookVars, lineItemVars,
  mappingVars,
  aggregationVars, priceChangeVars>>
outsideBreaker == <<ledgerVars, cacheVars, retryVars, hookVars, lineItemVars,
  mappingVars,
  aggregationVars, priceChangeVars>>
outsideRetry == <<ledgerVars, cacheVars, breakerVars, hookVars, lineItemVars,
  mappingVars,
  aggregationVars, priceChangeVars>>
outsideHook == <<ledgerVars, cacheVars, breakerVars, retryVars, lineItemVars,
  mappingVars,
  aggregationVars, priceChangeVars>>
outsideLineItem == <<ledgerVars, cacheVars, breakerVars, retryVars, hookVars,
  mappingVars,
  aggregationVars, priceChangeVars>>
outsideMapping == <<ledgerVars, cacheVars, breakerVars, retryVars, hookVars,
  lineItemVars,
  aggregationVars, priceChangeVars>>
outsideAggregation == <<ledgerVars, cacheVars, breakerVars, retryVars,
  hookVars, lineItemVars, mappingVars, priceChangeVars>>
outsidePriceChange == <<ledgerVars, cacheVars, breakerVars, retryVars,
  hookVars, lineItemVars, mappingVars, aggregationVars>>

----------------------------------------------------------------------------
\* Bounds of the model.
NumCallers == 2
NumCheckers == 2
NumClients == 2
\* threshold and timeout of executeWithCircuitBreaker (defaults 5 and 60000 ms),
\* scaled down; MaxTime bounds the clock and MaxCalls the calls begun.
Threshold == 2
Timeout == 2
MaxTime == 3
MaxCalls == 6
\* Runs of cleanupExpiredIdempotencyKeys.
MaxCleanups == 1
\* The largest config.maxRetries given to executeWithRetry.
MaxRetriesConfig == 2
\* Webhook requests in flight, the most events one request body carries,
\* and the most events all request bodies carry together.
NumRequests == 2
MaxBatch == 2
MaxEvents == 3
\* The most line items one mapping call is given.
MaxItems == 2
\* Line-item requests served in a row, the seconds between two of them
\* pass in ticks of TickSeconds, up to MaxItemTime.
MaxItemRequests == 2
TickSeconds == 5
MaxItemTime == 15
\* Calls of handlePriceChange in a row.
MaxPriceChanges == 2

\* Program constants.
DEFAULT_MAX_RETRIES == 3
DEFAULT_TTL == 300
FAILED_TTL == 60
ITEM_PROP_CHANGE_TTL == 30
WEBHOOK_TTL == 60

----------------------------------------------------------------------------
(* Idempotency ledger *)

Callers == 1..NumCallers
LedgerKeys == {"k1"}
Undef == "undefined"
\* Values operation() may resolve to; NaN is one JSON cannot carry.
Results == {"r1", "NaN"}
Errors == {"e1", "e2"}
\* The message of the error a Redis command throws.
RedisError == "redis"
Outcomes == [ok : {TRUE}, val : Results] \cup [ok : {FALSE}, val : Errors]
NoOutcome == [ok |-> FALSE, val |-> Undef]

\* JSON.parse(JSON.stringify(v)) of a result value: NaN is written as null.
JSONValue(v) == IF v = "NaN" THEN "null" ELSE v

NoRecord == [status |-> "absent", result |-> Undef, error |-> Undef, ttl |-> 0]
ProcessingRecord ==
  [status |-> "processing", result |-> Undef, error |-> Undef, ttl |-> DEFAULT_TTL]
CompletedRecord(result) ==
  [status |-> "completed", result |-> JSONValue(result), error |-> Undef,
   ttl |-> DEFAULT_TTL]
FailedRecord(error) ==
  [status |-> "failed", result |-> Undef, error |-> error, ttl |-> FAILED_TTL]

NoReturn == [success |-> FALSE, result |-> Undef, error |-> Undef,
             isDuplicate |-> FALSE, returned |-> FALSE]
InFlightReturn ==
  [success |-> FALSE, result |-> Undef,
   error |-> "Operation is already being processed",
   isDuplicate |-> TRUE, returned |-> TRUE]
StoredReturn(rec) ==
  [success |-> TRUE, result |-> rec.result, error |-> Undef,
   isDuplicate |-> TRUE, returned |-> TRUE]
\* The result object built from an outcome of operation() (lines 104-118,
\* 126-136): the value itself, not the JSON copy kept in the record.
OutcomeReturn(out) ==
  IF out.ok
  THEN [success |-> TRUE, result |-> out.val, error |-> Undef,
        isDuplicate |-> FALSE, returned |-> TRUE]
  ELSE [success |-> FALSE, result |-> Undef, error |-> out.val,
        isDuplicate |-> FALSE, returned |-> TRUE]

\* A variant of the decision below that lets a call go on although the
\* record says another call is processing.
ExistingDecisionSkipsProcessing(rec) ==
  CASE rec.status = "completed" -> "completed"
    [] OTHER -> "proceed"

\* What checkIdempotency does with the record its GET returned (lines 69-92).
ExistingDecision(rec) ==
  CASE rec.status = "processing" -> "processing"
    [] rec.status = "completed" -> "completed"
    [] OTHER -> "proceed"

LedgerInit ==
  /\ store = [k \in LedgerKeys |-> NoRecord]
  /\ lpc = [c \in Callers |-> "idle"]
  /\ lkey = [c \in Callers |-> "k1"]
  /\ lret = [c \in Callers |-> NoReturn]
  /\ opCalls = [c \in Callers |-> 0]
  /\ firstOutcome = [c \in Callers |-> NoOutcome]
  /\ lastOutcome = [c \in Callers |-> NoOutcome]
  /\ caught = [c \in Callers |-> Undef]
  /\ faultAt = [c \in Callers |-> "none"]
  /\ readRec = [c \in Callers |-> NoRecord]
  /\ writes = [c \in Callers |-> 0]
  /\ removed = FALSE
  /\ cleanups = 0

\* A request enters checkIdempotency(key, operation).
CheckIdempotency(c, k) ==
  /\ lpc[c] = "idle"
  /\ lpc' = [lpc EXCEPT ![c] = "get"]
  /\ lkey' = [lkey EXCEPT ![c] = k]
  /\ UNCHANGED <<store, lret, opCalls, firstOutcome, lastOutcome, caught,
                 faultAt, readRec, writes, removed, cleanups>>
  /\ UNCHANGED outsideLedger

\* line 67: await client.get(...), then lines 69-92.
GetExisting(c) ==
  /\ lpc[c] = "get"
  /\ \/ /\ readRec' = [readRec EXCEPT ![c] = store[lkey[c]]]
        /\ LET d == ExistingDecision(store[lkey[c]]) IN
             /\ lpc' = [lpc EXCEPT ![c] = IF d = "proceed" THEN "mark" ELSE "done"]
             /\ lret' = [lret EXCEPT ![c] =
                           CASE d = "processing" -> InFlightReturn
                             [] d = "completed" -> StoredReturn(store[lkey[c]])
                             [] OTHER -> @]
        /\ UNCHANGED faultAt
     \/ \* the GET throws: outer catch
        /\ faultAt' = [faultAt EXCEPT ![c] = "get"]
        /\ lpc' = [lpc EXCEPT ![c] = "catch"]
        /\ UNCHANGED <<readRec, lret>>
  /\ UNCHANGED <<store, lkey, opCalls, firstOutcome, lastOutcome, caught,
                 writes, removed, cleanups>>
  /\ UNCHANGED outsideLedger

\* lines 184-196: an unconditional SETEX of the processing record.
MarkOperationInProgress(c) ==
  /\ lpc[c] = "mark"
  /\ \/ /\ store' = [store EXCEPT ![lkey[c]] = ProcessingRecord]
        /\ writes' = [writes EXCEPT ![c] = @ + 1]
        /\ lpc' = [lpc EXCEPT ![c] = "op"]
        /\ UNCHANGED faultAt
     \/ /\ faultAt' = [faultAt EXCEPT ![c] = "mark"]
        /\ lpc' = [lpc EXCEPT ![c] = "catch"]
        /\ UNCHANGED <<store, writes>>
  /\ UNCHANGED <<lkey, lret, opCalls, firstOutcome, lastOutcome, caught,
                 readRec, removed, cleanups>>
  /\ UNCHANGED outsideLedger

\* One invocation of the wrapped operation, with outcome out.
Invoke(c, out) ==
  /\ opCalls' = [opCalls EXCEPT ![c] = @ + 1]
  /\ firstOutcome' = [firstOutcome EXCEPT ![c] = IF opCalls[c] = 0 THEN out ELSE @]
  /\ lastOutcome' = [lastOutcome EXCEPT ![c] = out]

\* line 99: await operation() inside the inner try.
Operation(c) ==
  /\ lpc[c] = "op"
  /\ \E out \in Outcomes :
       /\ Invoke(c, out)
       /\ lpc' = [lpc EXCEPT ![c] = IF out.ok THEN "complete" ELSE "fail"]
       /\ caught' = [caught EXCEPT ![c] = IF out.ok THEN @ ELSE out.val]
  /\ UNCHANGED <<store, lkey, lret, faultAt, readRec, writes, removed, cleanups>>
  /\ UNCHANGED outsideLedger

\* lines 102-108 and 201-214.  The write is inside the inner try: when it
\* throws, the inner catch of line 110 holds the Redis error.
MarkOperationCompleted(c) ==
  /\ lpc[c] = "complete"
  /\ \/ /\ store' = [store EXCEPT ![lkey[c]] = CompletedRecord(lastOutcome[c].val)]
        /\ writes' = [writes EXCEPT ![c] = @ + 1]
        /\ lret' = [lret EXCEPT ![c] = OutcomeReturn(lastOutcome[c])]
        /\ lpc' = [lpc EXCEPT ![c] = "done"]
        /\ UNCHANGED <<faultAt, caught>>
     \/ /\ faultAt' = [faultAt EXCEPT ![c] = "complete"]
        /\ caught' = [caught EXCEPT ![c] = RedisError]
        /\ lpc' = [lpc EXCEPT ![c] = "fail"]
        /\ UNCHANGED <<store, writes, lret>>
  /\ UNCHANGED <<lkey, opCalls, firstOutcome, lastOutcome, readRec,
                 removed, cleanups>>
  /\ UNCHANGED outsideLedger

\* lines 110-118 and 219-233: the failed record and the result carry the
\* error the inner catch holds, which is the operation's error or the Redis
\* error of the completed write.  A throw inside this catch block reaches
\* the outer catch of line 121.
MarkOperationFailed(c) ==
  /\ lpc[c] = "fail"
  /\ \/ /\ store' = [store EXCEPT ![lkey[c]] = FailedRecord(caught[c])]
        /\ writes' = [writes EXCEPT ![c] = @ + 1]
        /\ lret' = [lret EXCEPT ![c] =
                      OutcomeReturn([ok |-> FALSE, val |-> caught[c]])]
        /\ lpc' = [lpc EXCEPT ![c] = "done"]
        /\ UNCHANGED faultAt
     \/ /\ faultAt' = [faultAt EXCEPT ![c] = "fail"]
        /\ lpc' = [lpc EXCEPT ![c] = "catch"]
        /\ UNCHANGED <<store, writes, lret>>
  /\ UNCHANGED <<lkey, opCalls, firstOutcome, lastOutcome, caught, readRec,
                 removed, cleanups>>
  /\ UNCHANGED outsideLedger

\* lines 121-138: any throw of the ledger lands here and runs operation().
OuterCatch(c) ==
  /\ lpc[c] = "catch"
  /\ \E out \in Outcomes :
       /\ Invoke(c, out)
       /\ lret' = [lret EXCEPT ![c] = OutcomeReturn(out)]
  /\ lpc' = [lpc EXCEPT ![c] = "done"]
  /\ UNCHANGED <<store, lkey, caught, faultAt, readRec, writes, removed, cleanups>>
  /\ UNCHANGED outsideLedger

\* Redis drops a record whose TTL has run out.
Expire(k) ==
  /\ store[k] # NoRecord
  /\ store' = [store EXCEPT ![k] = NoRecord]
  /\ removed' = TRUE
  /\ UNCHANGED <<lpc, lkey, lret, opCalls, firstOutcome, lastOutcome, caught,
                 faultAt, readRec, writes, cleanups>>
  /\ UNCHANGED outsideLedger

\* cleanupExpiredIdempotencyKeys: KEYS idempotency:* and, when there is a
\* key, DEL of all the keys found.  An error of Redis is caught (0 is
\* returned, nothing is deleted).
CleanupExpiredIdempotencyKeys ==
  /\ cleanups < MaxCleanups
  /\ cleanups' = cleanups + 1
  /\ \/ store' = [k \in LedgerKeys |-> NoRecord]
     \/ UNCHANGED store
  /\ UNCHANGED <<lpc, lkey, lret, opCalls, firstOutcome, lastOutcome, caught,
                 faultAt, readRec, writes, removed>>
  /\ UNCHANGED outsideLedger

LedgerNext ==
  \/ \E c \in Callers, k \in LedgerKeys : CheckIdempotency(c, k)
  \/ \E c \in Callers : GetExisting(c)
  \/ \E c \in Callers : MarkOperationInProgress(c)
  \/ \E c \in Callers : Operation(c)
  \/ \E c \in Callers : MarkOperationCompleted(c)
  \/ \E c \in Callers : MarkOperationFailed(c)
  \/ \E c \in Callers : OuterCatch(c)
  \/ \E k \in LedgerKeys : Expire(k)



\* The ledger with cleanup runs between the steps of the calls.
LedgerCleanupNext ==
  \/ \E c \in Callers, k \in LedgerKeys : CheckIdempotency(c, k)
  \/ \E c \in Callers : GetExisting(c)
  \/ \E c \in Callers : MarkOperationInProgress(c)
  \/ \E c \in Callers : Operation(c)
  \/ \E c \in Callers : MarkOperationCompleted(c)
  \/ \E c \in Callers : MarkOperationFailed(c)
  \/ \E c \in Callers : OuterCatch(c)
  \/ \E k \in LedgerKeys : Expire(k)
  \/ CleanupExpiredIdempotencyKeys

----------------------------------------------------------------------------
(* Dedup / ordering cache: RedisCacheService *)

Checkers == 1..NumCheckers
HsIds == {"101"}
HsProperties == {"price"}
HsValues == {"A", "B"}
EntityTypes == {"opportunity"}
Sources == {"itemPropChange", "quotePublished"}
\* Two source timestamps, t1 < t2.
OccurredAts == {1, 2}

\* mappingService.mapNSInternalProperty(hsProperty, 'opportunityItems')
NsProperty(hsProperty) == IF hsProperty = "price" THEN "rate" ELSE hsProperty

CacheEvents ==
  [hsId : HsIds, hsProperty : HsProperties, hsValue : HsValues,
   occurredAt : OccurredAts]
NoEvent == [hsId |-> Undef, hsProperty |-> Undef, hsValue |-> Undef, occurredAt |-> 0]

\* key = `${hsId}-${hsProperty}` (line 202)
CacheKey(hsId, hsProperty) == <<hsId, hsProperty>>
CacheKeys == {CacheKey(i, p) : i \in HsIds, p \in HsProperties}
KeyOf(ev) == CacheKey(ev.hsId, ev.hsProperty)

NoEntry == [present |-> FALSE, event |-> NoEvent, hsId |-> Undef,
            hsProperty |-> Undef, hsValue |-> Undef, entityType |-> Undef,
            nsProperty |-> Undef, ttl |-> 0]

\* cacheData of saveRequestToCache (lines 103-116) with its expiration.
CacheData(ev, source, hsId, hsProperty, hsValue, entityType, nsProperty) ==
  [present |-> TRUE, event |-> ev, hsId |-> hsId, hsProperty |-> hsProperty,
   hsValue |-> hsValue, entityType |-> entityType, nsProperty |-> nsProperty,
   ttl |-> IF source = "itemPropChange" THEN ITEM_PROP_CHANGE_TTL ELSE WEBHOOK_TTL]

\* lines 144-159 of getRequestFromCache: the cached request, or null.
ParsedRequest(data, hsId, hsProperty, hsValue, entityType, nsProperty) ==
  IF /\ data.present
     /\ data.hsId = hsId
     /\ data.hsProperty = hsProperty
     /\ data.hsValue = hsValue
     /\ data.entityType = entityType
     /\ data.nsProperty = nsProperty
  THEN data.event
  ELSE NoEvent

\* A variant of the decision below that rejects when no stored request came
\* back.
CacheDecisionRejectsUnknown(storedRequest, ev) ==
  IF storedRequest # NoEvent /\ ev.occurredAt > storedRequest.occurredAt
  THEN "delete"
  ELSE "reject"

\* lines 209-225 of checkCacheStatus.
CacheDecision(storedRequest, ev) ==
  IF storedRequest # NoEvent
  THEN IF ev.occurredAt > storedRequest.occurredAt THEN "delete" ELSE "reject"
  ELSE "accept"

CacheInit ==
  /\ cacheReady = FALSE
  /\ cache = [k \in CacheKeys |-> NoEntry]
  /\ cpc = [c \in Checkers |-> "idle"]
  /\ cev = [c \in Checkers |-> NoEvent]
  /\ cres = [c \in Checkers |-> FALSE]
  /\ cfault = [c \in Checkers |-> "none"]
  /\ seenMax = [k \in CacheKeys |-> 0]

\* lines 21-25: the client's 'connect' event.
RedisConnect ==
  /\ ~cacheReady
  /\ cacheReady' = TRUE
  /\ UNCHANGED <<cache, cpc, cev, cres, cfault, seenMax>>
  /\ UNCHANGED outsideCache

\* lines 27-41: the client's 'error' and 'close' events.
RedisDisconnect ==
  /\ cacheReady
  /\ cacheReady' = FALSE
  /\ UNCHANGED <<cache, cpc, cev, cres, cfault, seenMax>>
  /\ UNCHANGED outsideCache

\* lines 87-122: skipped when not ready, a throw of SETEX is swallowed.
SaveRequestToCache(ev, source, entityType) ==
  /\ cacheReady
  /\ cache' = [cache EXCEPT ![KeyOf(ev)] =
                 CacheData(ev, source, ev.hsId, ev.hsProperty, ev.hsValue,
                           entityType, NsProperty(ev.hsProperty))]
  /\ UNCHANGED <<cacheReady, cpc, cev, cres, cfault, seenMax>>
  /\ UNCHANGED outsideCache

\* A caller enters checkCacheStatus(event, hsId, hsProperty, hsValue, ...).
CheckCacheStatus(c, ev) ==
  /\ cpc[c] \in {"idle", "done"}
  /\ cpc' = [cpc EXCEPT ![c] = "get"]
  /\ cev' = [cev EXCEPT ![c] = ev]
  /\ cres' = [cres EXCEPT ![c] = FALSE]
  /\ cfault' = [cfault EXCEPT ![c] = "none"]
  /\ UNCHANGED <<cacheReady, cache, seenMax>>
  /\ UNCHANGED outsideCache

\* An event accepted with the cache working counts as seen for its key.
Seen(c, accepted) ==
  seenMax' = [seenMax EXCEPT ![KeyOf(cev[c])] =
                IF accepted /\ cfault'[c] = "none" /\ cev[c].occurredAt > @
                THEN cev[c].occurredAt ELSE @]

\* The rest of checkCacheStatus once getRequestFromCache gave storedRequest
\* (lines 209-225).
AfterGet(c, storedRequest, fault) ==
  LET d == CacheDecision(storedRequest, cev[c]) IN
    /\ cfault' = [cfault EXCEPT ![c] = fault]
    /\ cpc' = [cpc EXCEPT ![c] = IF d = "delete" THEN "del" ELSE "done"]
    /\ cres' = [cres EXCEPT ![c] = (d = "accept")]
    /\ cev' = [cev EXCEPT ![c] = IF d = "delete" THEN @ ELSE NoEvent]
    /\ Seen(c, d = "accept")

\* lines 127-164 and 205-225.
GetRequestFromCache(c) ==
  /\ cpc[c] = "get"
  /\ \/ /\ ~cacheReady
        /\ AfterGet(c, NoEvent, "notReady")
     \/ \* client.get throws: caught at line 160, null
        /\ cacheReady
        /\ AfterGet(c, NoEvent, "getError")
     \/ /\ cacheReady
        /\ AfterGet(c, ParsedRequest(cache[KeyOf(cev[c])], cev[c].hsId,
                                     cev[c].hsProperty, cev[c].hsValue,
                                     "opportunity", NsProperty(cev[c].hsProperty)),
                    "none")
  /\ UNCHANGED <<cacheReady, cache>>
  /\ UNCHANGED outsideCache

\* lines 169-189 and 212-216: the delete, then return true.
DeleteRequestFromCache(c) ==
  /\ cpc[c] = "del"
  /\ \/ /\ cacheReady
        /\ cache' = [cache EXCEPT ![KeyOf(cev[c])] = NoEntry]
        /\ UNCHANGED cfault
     \/ /\ ~cacheReady
        /\ cfault' = [cfault EXCEPT ![c] = "notReady"]
        /\ UNCHANGED cache
     \/ \* client.del throws: caught at line 186
        /\ cacheReady
        /\ cfault' = [cfault EXCEPT ![c] = "delError"]
        /\ UNCHANGED cache
  /\ cpc' = [cpc EXCEPT ![c] = "done"]
  /\ cres' = [cres EXCEPT ![c] = TRUE]
  /\ cev' = [cev EXCEPT ![c] = NoEvent]
  /\ Seen(c, TRUE)
  /\ UNCHANGED cacheReady
  /\ UNCHANGED outsideCache

\* The TTL window of a key runs out: Redis drops the entry, and no event
\* of the old window counts as seen any more.
CacheExpire(k) ==
  /\ cache[k].present \/ seenMax[k] > 0
  /\ cache' = [cache EXCEPT ![k] = NoEntry]
  /\ seenMax' = [seenMax EXCEPT ![k] = 0]
  /\ UNCHANGED <<cacheReady, cpc, cev, cres, cfault>>
  /\ UNCHANGED outsideCache

CacheNext ==
  \/ RedisConnect
  \/ RedisDisconnect
  \/ \E ev \in CacheEvents, src \in Sources, et \in EntityTypes :
       SaveRequestToCache(ev, src, et)
  \/ \E c \in Checkers, ev \in CacheEvents : CheckCacheStatus(c, ev)
  \/ \E c \in Checkers : GetRequestFromCache(c)
  \/ \E c \in Checkers : DeleteRequestFromCache(c)
  \/ \E k \in CacheKeys : CacheExpire(k)

----------------------------------------------------------------------------
(* Circuit breaker: RetryService.executeWithCircuitBreaker *)

Clients == 1..NumClients
Services == {"netsuite", "hubspot"}

BreakerInit ==
  /\ circuitBreakerStates = [s \in Services |-> "CLOSED"]
  /\ failureCounts = [s \in Services |-> 0]
  /\ lastFailureTimes = [s \in Services |-> 0]
  /\ now = 0
  /\ bpc = [p \in Clients |-> "idle"]
  /\ bsvc = [p \in Clients |-> "netsuite"]
  /\ bstate = [p \in Clients |-> "CLOSED"]
  /\ bcount = [p \in Clients |-> 0]
  /\ bres = [p \in Clients |-> "none"]
  /\ started = 0
  /\ consec = [s \in Services |-> 0]
  /\ inWindow = [p \in Clients |-> FALSE]
  /\ probeFailedAt = [s \in Services |-> -1]

\* line 464: should an OPEN breaker move to HALF_OPEN?
TimeoutElapsed(state, lastFailure, t) ==
  state = "OPEN" /\ t - lastFailure > Timeout

\* line 470: is the call rejected?
Rejects(state) == state = "OPEN"

\* A variant of the test below that opens one failure later.
ThresholdExceededStrict(failureCount) == failureCount + 1 > Threshold

\* line 491: does this failure open the breaker?
ThresholdExceeded(failureCount) == failureCount + 1 >= Threshold

\* Threshold consecutive failures, the last one less than Timeout ago.
OpenWindow(s) == consec[s] >= Threshold /\ now - lastFailureTimes[s] < Timeout

\* lines 459-472: the synchronous part of the call, up to await operation().
BeginCall(p, s) ==
  /\ bpc[p] \in {"idle", "done"}
  /\ started < MaxCalls
  /\ started' = started + 1
  /\ bsvc' = [bsvc EXCEPT ![p] = s]
  /\ bstate' = [bstate EXCEPT ![p] =
                  IF Rejects(circuitBreakerStates[s]) THEN "CLOSED"
                  ELSE circuitBreakerStates[s]]
  /\ bcount' = [bcount EXCEPT ![p] =
                  IF Rejects(circuitBreakerStates[s]) THEN 0 ELSE failureCounts[s]]
  /\ inWindow' = [inWindow EXCEPT ![p] = OpenWindow(s)]
  /\ circuitBreakerStates' =
       IF TimeoutElapsed(circuitBreakerStates[s], lastFailureTimes[s], now)
       THEN [circuitBreakerStates EXCEPT ![s] = "HALF_OPEN"]
       ELSE circuitBreakerStates
  /\ IF Rejects(circuitBreakerStates[s])
     THEN /\ bpc' = [bpc EXCEPT ![p] = "done"]
          /\ bres' = [bres EXCEPT ![p] = "rejected"]
     ELSE /\ bpc' = [bpc EXCEPT ![p] = "op"]
          /\ bres' = [bres EXCEPT ![p] = "none"]
  /\ UNCHANGED <<failureCounts, lastFailureTimes, now, consec, probeFailedAt>>
  /\ UNCHANGED outsideBreaker

\* lines 475-484: operation() resolved.
OperationSucceeds(p) ==
  /\ bpc[p] = "op"
  /\ bpc' = [bpc EXCEPT ![p] = "done"]
  /\ bres' = [bres EXCEPT ![p] = "ok"]
  /\ IF bstate[p] = "HALF_OPEN"
     THEN /\ circuitBreakerStates' = [circuitBreakerStates EXCEPT ![bsvc[p]] = "CLOSED"]
          /\ failureCounts' = [failureCounts EXCEPT ![bsvc[p]] = 0]
     ELSE UNCHANGED <<circuitBreakerStates, failureCounts>>
  /\ consec' = [consec EXCEPT ![bsvc[p]] = 0]
  /\ bstate' = [bstate EXCEPT ![p] = "CLOSED"]
  /\ bcount' = [bcount EXCEPT ![p] = 0]
  /\ UNCHANGED <<lastFailureTimes, now, bsvc, started, inWindow, probeFailedAt>>
  /\ UNCHANGED outsideBreaker

\* lines 485-497: operation() rejected.
OperationFails(p) ==
  /\ bpc[p] = "op"
  /\ bpc' = [bpc EXCEPT ![p] = "done"]
  /\ bres' = [bres EXCEPT ![p] = "failed"]
  /\ failureCounts' = [failureCounts EXCEPT ![bsvc[p]] = bcount[p] + 1]
  /\ lastFailureTimes' = [lastFailureTimes EXCEPT ![bsvc[p]] = now]
  /\ circuitBreakerStates' =
       IF ThresholdExceeded(bcount[p])
       THEN [circuitBreakerStates EXCEPT ![bsvc[p]] = "OPEN"]
       ELSE circuitBreakerStates
  /\ consec' = [consec EXCEPT ![bsvc[p]] = @ + 1]
  /\ bstate' = [bstate EXCEPT ![p] = "CLOSED"]
  /\ bcount' = [bcount EXCEPT ![p] = 0]
  /\ probeFailedAt' =
       IF bstate[p] = "HALF_OPEN"
       THEN [probeFailedAt EXCEPT ![bsvc[p]] = now]
       ELSE probeFailedAt
  /\ UNCHANGED <<now, bsvc, started, inWindow>>
  /\ UNCHANGED outsideBreaker

\* Time passes.
Tick ==
  /\ now < MaxTime
  /\ now' = now + 1
  /\ UNCHANGED <<circuitBreakerStates, failureCounts, lastFailureTimes, bpc,
                 bsvc, bstate, bcount, bres, started, consec, inWindow,
                 probeFailedAt>>
  /\ UNCHANGED outsideBreaker

NoCallInFlight == \A p \in Clients : bpc[p] # "op"

\* Calls made one after the other: each begins when the one before has ended.
BeginCallInTurn(p, s) == NoCallInFlight /\ BeginCall(p, s)

BreakerNextInTurn ==
  \/ \E p \in Clients, s \in Services : BeginCallInTurn(p, s)
  \/ \E p \in Clients : OperationSucceeds(p)
  \/ \E p \in Clients : OperationFails(p)
  \/ Tick

\* Calls that may overlap: a call begins while others await their operation.
BreakerNext ==
  \/ \E p \in Clients, s \in Services : BeginCall(p, s)
  \/ \E p \in Clients : OperationSucceeds(p)
  \/ \E p \in Clients : OperationFails(p)
  \/ Tick

----------------------------------------------------------------------------
(* Retry: RetryService.executeWithRetry *)

\* config.maxRetries, a number >= 0
MaxRetriesValues == 0..MaxRetriesConfig
RetryValues == {"v1"}
\* errors of operation(), by HTTP status
RetryStatuses == {400, 429, 503}
NoRetryOutcome == [ok |-> FALSE, val |-> Undef, status |-> 0]
RetryOutcomes ==
  [ok : {TRUE}, val : RetryValues, status : {200}]
    \cup [ok : {FALSE}, val : {Undef}, status : RetryStatuses]
NoRetryReturn == [kind |-> "none", val |-> Undef, status |-> 0]

\* defaultConfig.retryCondition, for an error that carries a response
RetryCondition(error) ==
  error.status = 429 \/ error.status = 408 \/ error.status >= 500

\* mergedConfig.maxRetries || 3 (lines 316 and 323): 0 is falsy
MaxRetriesOr3(maxRetries) ==
  IF maxRetries = 0 THEN DEFAULT_MAX_RETRIES ELSE maxRetries

\* A variant of the test below that retries whatever the error is.
ShouldRetryAnyError(attempt, maxRetries, error) ==
  attempt < MaxRetriesOr3(maxRetries)

\* lines 323-324: is the failed attempt followed by another one?
ShouldRetry(attempt, maxRetries, error) ==
  attempt < MaxRetriesOr3(maxRetries) /\ RetryCondition(error)

RetryInit ==
  /\ rpc = "idle"
  /\ rmax = 0
  /\ rattempt = 0
  /\ rlastError = NoRetryOutcome
  /\ rret = NoRetryReturn
  /\ rhist = <<>>

\* lines 309-318: the call begins and awaits operation() for attempt 0.
ExecuteWithRetry(maxRetries) ==
  /\ rpc \in {"idle", "done"}
  /\ rpc' = "op"
  /\ rmax' = maxRetries
  /\ rattempt' = 0
  /\ rlastError' = NoRetryOutcome
  /\ rret' = NoRetryReturn
  /\ rhist' = <<>>
  /\ UNCHANGED outsideRetry

\* line 318: operation() resolved; its value is returned.
RetryOperationSucceeds(out) ==
  /\ rpc = "op"
  /\ out.ok
  /\ rhist' = Append(rhist, out)
  /\ rret' = [kind |-> "value", val |-> out.val, status |-> out.status]
  /\ rpc' = "done"
  /\ UNCHANGED <<rmax, rattempt, rlastError>>
  /\ UNCHANGED outsideRetry

\* lines 319-346 and 349: operation() rejected; sleep before the next
\* attempt, or break and throw lastError.
RetryOperationFails(out) ==
  /\ rpc = "op"
  /\ ~out.ok
  /\ rhist' = Append(rhist, out)
  /\ rlastError' = out
  /\ IF ShouldRetry(rattempt, rmax, out)
     THEN /\ rpc' = "sleep"
          /\ UNCHANGED rret
     ELSE /\ rpc' = "done"
          /\ rret' = [kind |-> "error", val |-> out.val, status |-> out.status]
  /\ UNCHANGED <<rmax, rattempt>>
  /\ UNCHANGED outsideRetry

\* lines 341 and 316: the sleep ends, attempt++ and the loop test.
RetrySleepEnds ==
  /\ rpc = "sleep"
  /\ rattempt' = rattempt + 1
  /\ IF rattempt + 1 <= MaxRetriesOr3(rmax)
     THEN /\ rpc' = "op"
          /\ UNCHANGED rret
     ELSE /\ rpc' = "done"
          /\ rret' = [kind |-> "error", val |-> rlastError.val,
                      status |-> rlastError.status]
  /\ UNCHANGED <<rmax, rlastError, rhist>>
  /\ UNCHANGED outsideRetry

RetryNext ==
  \/ \E maxRetries \in MaxRetriesValues : ExecuteWithRetry(maxRetries)
  \/ \E out \in RetryOutcomes : RetryOperationSucceeds(out)
  \/ \E out \in RetryOutcomes : RetryOperationFails(out)
  \/ RetrySleepEnds

----------------------------------------------------------------------------
(* Deal webhook entry point: WebhookController.handleDealCreation,          *)
(* DealService.syncDealToNetSuite, NetSuiteService.syncOpportunityFromDeal  *)

Requests == 1..NumRequests
ObjectIds == {"2222"}
DealNames == {"Acme renewal", "Contest prize"}
DealStages == {"qualifiedtobuy", "closedlost"}
Pipelines == {"default", "legacy"}
CompanyLists == {<<>>, <<"c1">>}

\* String(Number(event.objectId)): the deal id the event's objectId stands for.
DealIdOf(objectId) ==
  CASE objectId = "02222" -> "2222"
    [] objectId = "abc" -> "NaN"
    [] OTHER -> objectId
DealIds == {DealIdOf(o) : o \in ObjectIds}

\* The elements a request body may carry.  isObject is FALSE for a null
\* element, whose objectType cannot be read.
CreationEvents ==
  [isObject : {TRUE}, objectId : ObjectIds, objectType : {"deal"},
   subscriptionType : {"deal.creation"}, occurredAt : OccurredAts]
OtherEvents ==
  {[isObject |-> TRUE, objectId |-> "2222", objectType |-> "contact",
    subscriptionType |-> "contact.creation", occurredAt |-> 1],
   [isObject |-> TRUE, objectId |-> "2222", objectType |-> "deal",
    subscriptionType |-> "deal.propertyChange", occurredAt |-> 1]}
NullEvent ==
  [isObject |-> FALSE, objectId |-> Undef, objectType |-> Undef,
   subscriptionType |-> Undef, occurredAt |-> 0]
HookEvents == CreationEvents \cup OtherEvents \cup {NullEvent}
NoHookEvent ==
  [isObject |-> TRUE, objectId |-> Undef, objectType |-> Undef,
   subscriptionType |-> Undef, occurredAt |-> 0]

\* A deal of HubSpot; netsuite_id 0 stands for the empty property.
NoDeal ==
  [exists |-> FALSE, dealname |-> "", dealstage |-> "", pipeline |-> "",
   netsuite_id |-> 0]
Deal(dealname, dealstage, pipeline) ==
  [exists |-> TRUE, dealname |-> dealname, dealstage |-> dealstage,
   pipeline |-> pipeline, netsuite_id |-> 0]

\* isTestDeal: the lower-cased name includes one of test, testing, demo,
\* sample, vivacity ("Contest prize" includes "test").
IsTestDeal(dealname) == dealname \in {"Contest prize"}
\* isInvalidDealStage (the stages of DealStages are lower case already)
IsInvalidDealStage(dealstage) == dealstage \in {"7", "closedlost", "dead"}
\* isValidPipeline
IsValidPipeline(pipeline) ==
  pipeline \in {"default", "sales_pipeline", "36643521"} \/ pipeline = ""

\* mapDealStageToNetSuite
MapDealStageToNetSuite(hsStage) ==
  CASE hsStage = "appointmentscheduled" -> "1"
    [] hsStage = "qualifiedtobuy" -> "2"
    [] hsStage = "presentationscheduled" -> "3"
    [] hsStage = "decisionmakerboughtin" -> "4"
    [] hsStage = "contractsent" -> "5"
    [] hsStage = "closedwon" -> "6"
    [] hsStage = "closedlost" -> "7"
    [] OTHER -> "1"

\* opportunityData of syncDealToNetSuite, as far as the model follows it
OpportunityData(dealId, dealProperties) ==
  [dealId |-> dealId, title |-> dealProperties.dealname,
   stage |-> MapDealStageToNetSuite(dealProperties.dealstage)]

\* NetSuite's answer to getOpportunityId: the opportunity of the deal, or 0
OpportunityIdOf(dealId) ==
  LET ids == {i \in 1..Len(opportunities) : opportunities[i].dealId = dealId}
  IN  IF ids = {} THEN 0 ELSE CHOOSE i \in ids : \A j \in ids : i <= j

HookInit ==
  /\ hsDeals = [d \in DealIds |-> NoDeal]
  /\ hsCompanies = [d \in DealIds |-> <<>>]
  /\ opportunities = <<>>
  /\ hpc = [r \in Requests |-> "idle"]
  /\ hleft = [r \in Requests |-> 0]
  /\ hev = [r \in Requests |-> NoHookEvent]
  /\ hcompany = [r \in Requests |-> <<>>]
  /\ hprops = [r \in Requests |-> NoDeal]
  /\ hopp = [r \in Requests |-> 0]
  /\ hstatus = [r \in Requests |-> 0]
  /\ hret = [r \in Requests |-> "none"]
  /\ hthrew = [r \in Requests |-> FALSE]
  /\ hbad = [r \in Requests |-> FALSE]
  /\ erpWrites = [e \in CreationEvents |-> 0]
  /\ hadmitted = 0

\* A HubSpot user creates the deal.
HubSpotCreateDeal(d, dealname, dealstage, pipeline, companies) ==
  /\ ~hsDeals[d].exists
  /\ hsDeals' = [hsDeals EXCEPT ![d] = Deal(dealname, dealstage, pipeline)]
  /\ hsCompanies' = [hsCompanies EXCEPT ![d] = companies]
  /\ UNCHANGED <<opportunities, hpc, hleft, hev, hcompany, hprops, hopp,
                 hstatus, hret, hthrew, hbad, erpWrites, hadmitted>>
  /\ UNCHANGED outsideHook

\* A HubSpot user moves the deal to another stage.
HubSpotChangeStage(d, dealstage) ==
  /\ hsDeals[d].exists
  /\ hsDeals[d].dealstage # dealstage
  /\ hsDeals' = [hsDeals EXCEPT ![d].dealstage = dealstage]
  /\ UNCHANGED <<hsCompanies, opportunities, hpc, hleft, hev, hcompany, hprops,
                 hopp, hstatus, hret, hthrew, hbad, erpWrites, hadmitted>>
  /\ UNCHANGED outsideHook

\* handleDealCreation is entered with a body of n elements.
HandleDealCreation(r, n) ==
  /\ hpc[r] = "idle"
  /\ hadmitted + n <= MaxEvents
  /\ hadmitted' = hadmitted + n
  /\ hpc' = [hpc EXCEPT ![r] = "loop"]
  /\ hleft' = [hleft EXCEPT ![r] = n]
  /\ UNCHANGED <<hsDeals, hsCompanies, opportunities, hev, hcompany, hprops,
                 hopp, hstatus, hret, hthrew, hbad, erpWrites>>
  /\ UNCHANGED outsideHook

\* A variant of the operator below that leaves the pipeline out.
SkipsSyncWithoutPipelineCheck(p) ==
  IsTestDeal(p.dealname) \/ IsInvalidDealStage(p.dealstage)

\* lines 1044-1060: the three early returns of syncDealToNetSuite
SkipsSync(p) ==
  \/ IsTestDeal(p.dealname)
  \/ IsInvalidDealStage(p.dealstage)
  \/ ~IsValidPipeline(p.pipeline)

\* A variant of the operator below in which an error of the sync leaves the
\* handler: the loop is abandoned and nothing is answered.
EndEventEscapes(r, ret) ==
  /\ hret' = [hret EXCEPT ![r] = ret]
  /\ hthrew' = [hthrew EXCEPT ![r] = @ \/ ret = "threw"]
  /\ hpc' = [hpc EXCEPT ![r] = IF ret = "threw" THEN "done" ELSE "loop"]
  /\ hleft' = [hleft EXCEPT ![r] = @ - 1]
  /\ hev' = [hev EXCEPT ![r] = NoHookEvent]
  /\ hcompany' = [hcompany EXCEPT ![r] = <<>>]
  /\ hprops' = [hprops EXCEPT ![r] = NoDeal]
  /\ hopp' = [hopp EXCEPT ![r] = 0]

\* The running sync of request r ends with outcome ret: "null" or "id" for
\* what syncDealToNetSuite returns, "threw" for an error it rethrows (the
\* handler catches it), and the loop goes on with the next element.
EndEvent(r, ret) ==
  /\ hret' = [hret EXCEPT ![r] = ret]
  /\ hthrew' = [hthrew EXCEPT ![r] = @ \/ ret = "threw"]
  /\ hpc' = [hpc EXCEPT ![r] = "loop"]
  /\ hleft' = [hleft EXCEPT ![r] = @ - 1]
  /\ hev' = [hev EXCEPT ![r] = NoHookEvent]
  /\ hcompany' = [hcompany EXCEPT ![r] = <<>>]
  /\ hprops' = [hprops EXCEPT ![r] = NoDeal]
  /\ hopp' = [hopp EXCEPT ![r] = 0]

\* One turn of the for loop, up to the first await of the sync it starts.
NextEvent(r) ==
  /\ hpc[r] = "loop"
  /\ \/ /\ hleft[r] = 0
        /\ hpc' = [hpc EXCEPT ![r] = "done"]
        /\ hstatus' = [hstatus EXCEPT ![r] = 200]
        /\ UNCHANGED <<hleft, hev, hbad>>
     \/ /\ hleft[r] > 0
        /\ \E e \in HookEvents :
             \/ /\ ~e.isObject
                /\ hpc' = [hpc EXCEPT ![r] = "done"]
                /\ hstatus' = [hstatus EXCEPT ![r] = 500]
                /\ hbad' = [hbad EXCEPT ![r] = TRUE]
                /\ UNCHANGED <<hleft, hev>>
             \/ /\ e.isObject
                /\ e.objectType # "deal" \/ e.subscriptionType # "deal.creation"
                /\ hleft' = [hleft EXCEPT ![r] = @ - 1]
                /\ UNCHANGED <<hpc, hev, hstatus, hbad>>
             \/ /\ e.isObject
                /\ e.objectType = "deal" /\ e.subscriptionType = "deal.creation"
                /\ hpc' = [hpc EXCEPT ![r] = "checkDealProperties"]
                /\ hev' = [hev EXCEPT ![r] = e]
                /\ UNCHANGED <<hleft, hstatus, hbad>>
  /\ UNCHANGED <<hsDeals, hsCompanies, opportunities, hcompany, hprops, hopp,
                 hret, hthrew, erpWrites, hadmitted>>
  /\ UNCHANGED outsideHook

\* checkDealProperties and the three skips of syncDealToNetSuite
CheckDealProperties(r) ==
  /\ hpc[r] = "checkDealProperties"
  /\ LET d == DealIdOf(hev[r].objectId)
         p == hsDeals[d]
     IN  \/ /\ p.exists
            /\ IF SkipsSync(p)
               THEN EndEvent(r, "null")
               ELSE /\ hpc' = [hpc EXCEPT ![r] = "getDeal"]
                    /\ hcompany' = [hcompany EXCEPT ![r] = hsCompanies[d]]
                    /\ UNCHANGED <<hleft, hev, hprops, hopp, hret, hthrew>>
         \/ EndEvent(r, "threw")   \* getDeal or getDealAssociations throws
  /\ UNCHANGED <<hsDeals, hsCompanies, opportunities, hstatus, hbad, erpWrites, hadmitted>>
  /\ UNCHANGED outsideHook

\* the second getDeal of syncDealToNetSuite and the company check
GetDeal(r) ==
  /\ hpc[r] = "getDeal"
  /\ LET d == DealIdOf(hev[r].objectId)
     IN  \/ /\ hcompany[r] # <<>>
            /\ hpc' = [hpc EXCEPT ![r] = "getOpportunityId"]
            /\ hprops' = [hprops EXCEPT ![r] = hsDeals[d]]
            /\ UNCHANGED <<hleft, hev, hcompany, hopp, hret, hthrew>>
         \/ /\ hcompany[r] = <<>>     \* No associated company found
            /\ EndEvent(r, "threw")
         \/ EndEvent(r, "threw")      \* getDeal throws
  /\ UNCHANGED <<hsDeals, hsCompanies, opportunities, hstatus, hbad, erpWrites, hadmitted>>
  /\ UNCHANGED outsideHook

\* syncOpportunityFromDeal: the lookup of the deal's opportunity
GetOpportunityId(r) ==
  /\ hpc[r] = "getOpportunityId"
  /\ \/ /\ hpc' = [hpc EXCEPT ![r] = "writeOpportunity"]
        /\ hopp' = [hopp EXCEPT ![r] = OpportunityIdOf(DealIdOf(hev[r].objectId))]
        /\ UNCHANGED <<hleft, hev, hcompany, hprops, hret, hthrew>>
     \/ EndEvent(r, "threw")          \* getOpportunityId throws
  /\ UNCHANGED <<hsDeals, hsCompanies, opportunities, hstatus, hbad, erpWrites, hadmitted>>
  /\ UNCHANGED outsideHook

\* syncOpportunityFromDeal: updateOpportunity or createOpportunity, and the
\* return to syncDealToNetSuite
WriteOpportunity(r) ==
  /\ hpc[r] = "writeOpportunity"
  /\ LET data == OpportunityData(DealIdOf(hev[r].objectId), hprops[r])
         id == IF hopp[r] # 0 THEN hopp[r] ELSE Len(opportunities) + 1
     IN  \/ /\ opportunities' =
                 IF hopp[r] # 0
                 THEN [opportunities EXCEPT ![id] = data]
                 ELSE Append(opportunities, data)
            /\ erpWrites' = [erpWrites EXCEPT ![hev[r]] = IF @ = 0 THEN 1 ELSE 2]
            /\ IF hprops[r].netsuite_id = 0
               THEN /\ hpc' = [hpc EXCEPT ![r] = "updateDealProperties"]
                    /\ hopp' = [hopp EXCEPT ![r] = id]
                    /\ UNCHANGED <<hleft, hev, hcompany, hprops, hret, hthrew>>
               ELSE EndEvent(r, "id")
         \/ /\ EndEvent(r, "threw")   \* the NetSuite write throws
            /\ UNCHANGED <<opportunities, erpWrites, hadmitted>>
  /\ UNCHANGED <<hsDeals, hsCompanies, hstatus, hbad, hadmitted>>
  /\ UNCHANGED outsideHook

\* updateDealProperties(dealId, {netsuite_id: opportunityId})
UpdateDealProperties(r) ==
  /\ hpc[r] = "updateDealProperties"
  /\ \/ /\ hsDeals' = [hsDeals EXCEPT ![DealIdOf(hev[r].objectId)].netsuite_id = hopp[r]]
        /\ EndEvent(r, "id")
     \/ /\ UNCHANGED hsDeals          \* updateDealProperties throws
        /\ EndEvent(r, "threw")
  /\ UNCHANGED <<hsCompanies, opportunities, hstatus, hbad, erpWrites, hadmitted>>
  /\ UNCHANGED outsideHook

HookNext ==
  \/ \E d \in DealIds, dealname \in DealNames, dealstage \in DealStages,
        pipeline \in Pipelines, companies \in CompanyLists :
       HubSpotCreateDeal(d, dealname, dealstage, pipeline, companies)
  \/ \E d \in DealIds, dealstage \in DealStages : HubSpotChangeStage(d, dealstage)
  \/ \E r \in Requests, n \in 0..MaxBatch : HandleDealCreation(r, n)
  \/ \E r \in Requests : NextEvent(r)
  \/ \E r \in Requests : CheckDealProperties(r)
  \/ \E r \in Requests : GetDeal(r)
  \/ \E r \in Requests : GetOpportunityId(r)
  \/ \E r \in Requests : WriteOpportunity(r)
  \/ \E r \in Requests : UpdateDealProperties(r)

NoRequestInFlight == \A r \in Requests : hpc[r] \in {"idle", "done"}

\* Requests served one after the other: a request is taken up when no other
\* is under way.  HubSpot users act at any time.
HandleDealCreationInTurn(r, n) == NoRequestInFlight /\ HandleDealCreation(r, n)

HookNextInTurn ==
  \/ \E d \in DealIds, dealname \in DealNames, dealstage \in DealStages,
        pipeline \in Pipelines, companies \in CompanyLists :
       HubSpotCreateDeal(d, dealname, dealstage, pipeline, companies)
  \/ \E d \in DealIds, dealstage \in DealStages : HubSpotChangeStage(d, dealstage)
  \/ \E r \in Requests, n \in 0..MaxBatch : HandleDealCreationInTurn(r, n)
  \/ \E r \in Requests : NextEvent(r)
  \/ \E r \in Requests : CheckDealProperties(r)
  \/ \E r \in Requests : GetDeal(r)
  \/ \E r \in Requests : GetOpportunityId(r)
  \/ \E r \in Requests : WriteOpportunity(r)
  \/ \E r \in Requests : UpdateDealProperties(r)

----------------------------------------------------------------------------
(* Line-item workflows: WebhookController.handleLineItemCreation,          *)
(* handleLineItemPropertyChange, handleQuotePublished and parseItems        *)

ItemSources == {"itemCreate", "itemPropChange", "quotePublished"}
ItemDealStages == {"qualifiedtobuy", "closedwon", "closedlost", "dead"}
ItemPropertyNames == {"quantity", "price", "hs_margin_acv"}
\* netsuite_id of the deal; "" is the empty property.
NetsuiteIds == {"", "9001"}
\* opportunity_number of the deal; "" is the empty property.
OpportunityNumbers == {"", "OPP-001"}
LineItemIds == {"i1", "i2"}
\* results of the line-item associations request
LineItemAssociations == {<<>>, <<"i1">>, <<"i1", "i2">>}
\* An element of the company associations request.  The declared type
\* carries id and type only; the controller also reads name, which the
\* element may or may not carry.
CompanyRecords ==
  {[id |-> "c1", hasName |-> FALSE, name |-> Undef],
   [id |-> "c1", hasName |-> TRUE, name |-> "Acme"],
   [id |-> "c1", hasName |-> TRUE, name |-> "Vivacity Labs"]}
CompanyAssociations == {<<>>} \cup {<<c>> : c \in CompanyRecords}
FetchOutcomes == {"ok", "notFound", "error"}

\* lineItemProperties.mohave_price; "" is the absent property.
MohavePrices == {"", "12.50"}

\* The body of a line-item request.  The line item of the event is "i1";
\* lineItemsData.lineItemProperties is optional, and mohave_price is one of
\* its properties.
ItemEvents ==
  {e \in [dealId : {"2222"}, propertyName : ItemPropertyNames,
          occurredAt : {5000}, lineItemCreated : {1000, 4500},
          hasLineItemProperties : BOOLEAN, mohavePrice : MohavePrices] :
     e.mohavePrice # "" => e.hasLineItemProperties}
NoItemEvent ==
  [dealId |-> "", propertyName |-> Undef, occurredAt |-> 0,
   lineItemCreated |-> 0, hasLineItemProperties |-> FALSE, mohavePrice |-> ""]

\* isDealStageClosed, isDealStageClosedWon
IsDealStageClosed(dealstage) ==
  dealstage \in {"closedwon", "closedlost", "6", "7"}
IsDealStageClosedWon(dealstage) == dealstage \in {"closedwon", "6"}

\* What DealService.checkDealProperties returns, as far as the workflows
\* read it.  The object has no cacheValid property.
DealPropertyCheckResponse(dealname, dealstage, pipeline, opportunityNumber, netsuiteId, lineItems, companies) ==
  [isDealTest |-> IsTestDeal(dealname),
   isInvalidStage |-> IsInvalidDealStage(dealstage),
   dealStageClosed |-> IsDealStageClosed(dealstage),
   dealStageClosedWon |-> IsDealStageClosedWon(dealstage),
   dealPipelineValid |-> IsValidPipeline(pipeline),
   opportunityNumber |-> opportunityNumber,
   netsuiteId |-> netsuiteId,
   dealLineItems |-> lineItems,
   dealCompanies |-> companies]
NoResponse ==
  [isDealTest |-> FALSE, isInvalidStage |-> FALSE, dealStageClosed |-> FALSE,
   dealStageClosedWon |-> FALSE, dealPipelineValid |-> FALSE,
   opportunityNumber |-> "", netsuiteId |-> Undef, dealLineItems |-> <<>>,
   dealCompanies |-> <<>>]

\* response.cacheValid as a condition: a property the object does not have
\* reads as undefined, which is falsy.
CacheValid(response) ==
  IF "cacheValid" \in DOMAIN response THEN response.cacheValid ELSE FALSE

\* testCompanyCheck: the lower-cased name includes test or vivacity;
\* company.name?. of an element without name is undefined.
NameIsTest(name) == name \in {"Vivacity Labs"}
TestCompanyCheck(dealCompanies) ==
  \E i \in 1..Len(dealCompanies) :
    dealCompanies[i].hasName /\ NameIsTest(dealCompanies[i].name)

\* timestampEqualityCheck
TIMESTAMP_WINDOW == 1000
TimestampEqualityCheck(occurredAt, lineItemCreated) ==
  LET d == occurredAt - lineItemCreated
  IN  (IF d < 0 THEN -d ELSE d) < TIMESTAMP_WINDOW

\* The validation checks without the one of the deal's companies.
EarlyQuitWithoutCompanyCheck(response) ==
  IF response.dealStageClosed /\ ~response.dealStageClosedWon
    THEN "closedNotWon"
  ELSE IF ~response.dealStageClosedWon /\ response.netsuiteId = ""
    THEN "noOpportunityId"
  ELSE IF response.isDealTest THEN "testDeal"
  ELSE IF response.isInvalidStage THEN "invalidStage"
  ELSE IF ~response.dealPipelineValid THEN "invalidPipeline"
  ELSE ""
\* The validation checks the three workflows make in this order after
\* checkItemDealValidity: the reason to quit, or "" to go on.
EarlyQuit(response) ==
  IF response.dealStageClosed /\ ~response.dealStageClosedWon
    THEN "closedNotWon"
  ELSE IF ~response.dealStageClosedWon /\ response.netsuiteId = ""
    THEN "noOpportunityId"
  ELSE IF response.isDealTest THEN "testDeal"
  ELSE IF response.isInvalidStage THEN "invalidStage"
  ELSE IF ~response.dealPipelineValid THEN "invalidPipeline"
  ELSE IF TestCompanyCheck(response.dealCompanies) THEN "testCompany"
  ELSE ""

\* What a workflow does with the response, up to its next await:
\* a reason to quit, "price" for handlePriceChange, "margin" for
\* handleMarginChange, or "parse" for parseItems.
WorkflowStep(source, event, response) ==
  IF EarlyQuit(response) # "" THEN EarlyQuit(response)
  ELSE IF source = "itemCreate" THEN "parse"
  ELSE IF ~CacheValid(response) THEN "cacheInvalid"
  ELSE IF source = "itemPropChange" /\ event.propertyName = "price"
    THEN "price"
  ELSE IF source = "itemPropChange" /\ event.propertyName = "hs_margin_acv"
    THEN "margin"
  ELSE "parse"

\* hs_object_id of the line item the event is about (its snapshot).
EventItemId == "i1"

\* A variant of the operator below that tells no error apart.
IsNotFoundErrorNever(outcome) == FALSE

\* isNotFoundError: the message of the error includes "Not Found".
IsNotFoundError(outcome) == outcome = "notFound"

\* A variant of the operator below that keeps every item of the deal.
IsRemainingItemUnfiltered(id, hasLineItemProperties) == TRUE

\* lines 91-93: the filter of remainingItems
IsRemainingItem(id, hasLineItemProperties) ==
  ~hasLineItemProperties \/ id # EventItemId

NoItemsData == [items |-> <<>>, failedItems |-> <<>>, fetched |-> <<>>]

\* lines 95-110: the loop over remainingItems, one getDealItemsData each.
\* fetched lists the ids the loop has called getDealItemsData with.
RECURSIVE FetchRemainingItems(_, _, _)
FetchRemainingItems(remainingItems, fetch, data) ==
  IF remainingItems = <<>> THEN data
  ELSE LET id == Head(remainingItems)
           called == [data EXCEPT !.fetched = Append(@, id)]
       IN  FetchRemainingItems(Tail(remainingItems), fetch,
             IF fetch[id] = "ok"
               THEN [called EXCEPT
                       !.items = Append(@, [id |-> id, from |-> "hubspot"])]
             ELSE IF IsNotFoundError(fetch[id]) THEN called
             ELSE [called EXCEPT !.failedItems = Append(@, id)])

\* getDealItemsDataForProcessing: the cleaned snapshot of the event's item
\* first, then the other items of the deal, fetched one by one.
DealItemsData(dealLineItems, hasLineItemProperties, source, fetch) ==
  LET first == IF hasLineItemProperties /\ source # "quotePublished"
                 THEN <<[id |-> EventItemId, from |-> "snapshot"]>> ELSE <<>>
      Remaining(id) == IsRemainingItem(id, hasLineItemProperties)
  IN  FetchRemainingItems(SelectSeq(dealLineItems, Remaining), fetch,
                          [NoItemsData EXCEPT !.items = first])

\* itemsData.items of parseItems, each item by its id.
ItemsDataForProcessing(dealLineItems, hasLineItemProperties, source, fetch) ==
  LET items == DealItemsData(dealLineItems, hasLineItemProperties, source,
                             fetch).items
  IN  [i \in 1..Len(items) |-> items[i].id]

\* handlePriceChange, line 489: does the price change store the marker?
HasMohavePrice(event) ==
  event.hasLineItemProperties /\ event.mohavePrice \notin {"", "0"}

\* The marker of storeMohavePriceChange lives for 10 seconds.
MOHAVE_TTL == 10

\* checkMohavePriceChange at time t, the marker last stored at setAt
\* (-1: never): false when Redis is not ready or the read fails.
CheckMohavePriceChange(redisReady, setAt, t) ==
  redisReady /\ setAt >= 0 /\ t - setAt < MOHAVE_TTL

\* The price change of the item that came before a margin change begun at
\* time t: none, one less than MOHAVE_TTL ago, or one longer ago.
PriceChangeBefore(priceAt, t) ==
  IF priceAt < 0 THEN "none"
  ELSE IF t - priceAt < MOHAVE_TTL THEN "within"
  ELSE "after"

\* The call of patchOpportunityItems of the request: its arguments, whether
\* it rejected, and whether the failure went to the notification service
\* (emailService is imported by the controller and never called).
NoPatch ==
  [called |-> FALSE, opportunityId |-> "", items |-> <<>>, threw |-> FALSE,
   notified |-> FALSE]

\* A variant of the operator below that lets every opportunity id through.
HasOpportunityIdAlways(opportunityId) == TRUE

\* parseItems goes on past its first test: !opportunityId is false.
HasOpportunityId(opportunityId) == opportunityId # ""

\* A variant of the operator below that answers 200 whatever happened.
HandlerStatusAlwaysOk(threw) == 200

\* The answer of a handler once its workflow has ended: lines 93 and 96,
\* 111 and 114, 133 and 136.
HandlerStatus(threw) == IF threw THEN 500 ELSE 200

LineItemInit ==
  /\ lipc = "idle"
  /\ lisource = "none"
  /\ lievent = NoItemEvent
  /\ lifetch = [i \in LineItemIds |-> "ok"]
  /\ liresp = NoResponse
  /\ liitems = <<>>
  /\ lipatch = NoPatch
  /\ liquit = ""
  /\ listatus = 0
  /\ lilookups = 0
  /\ linow = 0
  /\ mohaveSetAt = -1
  /\ lipriceAt = -1
  /\ limargin = "none"
  /\ lirequests = 1

\* handleLineItemCreation up to the await of checkItemDealValidity
HandleLineItemCreation(event, fetch) ==
  /\ lipc = "idle"
  /\ lipc' = "validity"
  /\ lisource' = "itemCreate"
  /\ lievent' = event
  /\ lifetch' = fetch
  /\ UNCHANGED <<liresp, liitems, lipatch, liquit, listatus>>
  /\ UNCHANGED <<lilookups, markerVars, outsideLineItem>>

\* handleLineItemPropertyChange up to the await of checkItemDealValidity
HandleLineItemPropertyChange(event, fetch) ==
  /\ lipc = "idle"
  /\ lisource' = "itemPropChange"
  /\ lievent' = event
  /\ lifetch' = fetch
  /\ IF TimestampEqualityCheck(event.occurredAt, event.lineItemCreated)
       THEN /\ lipc' = "done" /\ liquit' = "timestampEqual"
            /\ listatus' = HandlerStatus(FALSE)
            /\ UNCHANGED <<lipriceAt, limargin>>
       ELSE /\ lipc' = "validity"
            /\ lipriceAt' = IF event.propertyName = "price" THEN linow
                            ELSE lipriceAt
            /\ limargin' = IF event.propertyName = "hs_margin_acv"
                             THEN PriceChangeBefore(lipriceAt, linow)
                           ELSE "none"
            /\ UNCHANGED <<liquit, listatus>>
  /\ UNCHANGED <<liresp, liitems, lipatch>>
  /\ UNCHANGED <<lilookups, linow, mohaveSetAt, lirequests, outsideLineItem>>

\* handleQuotePublished up to the await of checkItemDealValidity
HandleQuotePublished(dealId, fetch) ==
  /\ lipc = "idle"
  /\ lisource' = "quotePublished"
  /\ lievent' = [NoItemEvent EXCEPT !.dealId = dealId]
  /\ lifetch' = fetch
  /\ IF dealId = ""
       THEN lipc' = "done" /\ liquit' = "noDealId" /\ listatus' = 400
       ELSE lipc' = "validity" /\ UNCHANGED <<liquit, listatus>>
  /\ UNCHANGED <<liresp, liitems, lipatch>>
  /\ UNCHANGED <<lilookups, markerVars, outsideLineItem>>

\* checkItemDealValidity resolves; the workflow runs up to its next await.
\* handlePriceChange stores the marker of the item (when the item has a
\* mohave_price and Redis is ready) and writes to HubSpot only;
\* handleMarginChange reads hs_object_id of the snapshot (a TypeError without
\* one) and goes on to parseItems unless the marker of the item is live.
CheckItemDealValidity(response, redisReady) ==
  /\ lipc = "validity"
  /\ liresp' = response
  /\ LET step == WorkflowStep(lisource, lievent, response)
         mohaveTimestamp == CheckMohavePriceChange(redisReady, mohaveSetAt, linow)
         throws == step = "margin" /\ ~lievent.hasLineItemProperties
         parse == \/ step = "parse"
                  \/ step = "margin" /\ ~throws /\ ~mohaveTimestamp
     IN  /\ mohaveSetAt' =
              IF step = "price" /\ HasMohavePrice(lievent) /\ redisReady
                THEN linow ELSE mohaveSetAt
         /\ IF throws
              THEN /\ lipc' = "done"
                   /\ liquit' = "marginError"
                   /\ listatus' = HandlerStatus(TRUE)
            ELSE IF parse /\ HasOpportunityId(response.netsuiteId)
              THEN lipc' = "items" /\ UNCHANGED <<liquit, listatus>>
            ELSE /\ lipc' = "done"
                 /\ liquit' = IF parse THEN "parseNoOpportunityId" ELSE step
                 /\ listatus' = HandlerStatus(FALSE)
  /\ UNCHANGED <<lisource, lievent, lifetch, liitems, lipatch>>
  /\ UNCHANGED <<lilookups, linow, lipriceAt, limargin, lirequests,
                 outsideLineItem>>

\* checkItemDealValidity rejects: the workflow rethrows, the handler
\* answers 500.
CheckItemDealValidityFails ==
  /\ lipc = "validity"
  /\ lipc' = "done"
  /\ liquit' = "validityError"
  /\ listatus' = HandlerStatus(TRUE)
  /\ UNCHANGED <<lisource, lievent, lifetch, liresp, liitems, lipatch>>
  /\ UNCHANGED <<lilookups, markerVars, outsideLineItem>>

\* parseItems: getDealItemsDataForProcessing resolves; with no item the
\* workflow returns, else it calls patchOpportunityItems.
GetDealItemsDataForProcessing ==
  /\ lipc = "items"
  /\ LET items == ItemsDataForProcessing(liresp.dealLineItems,
                    lievent.hasLineItemProperties, lisource, lifetch)
     IN  /\ liitems' = items
         /\ IF items = <<>>
              THEN /\ lipc' = "done"
                   /\ liquit' = "noItems"
                   /\ listatus' = HandlerStatus(FALSE)
                   /\ UNCHANGED lipatch
              ELSE /\ lipc' = "patch"
                   /\ lipatch' = [called |-> TRUE,
                                  opportunityId |-> liresp.netsuiteId,
                                  items |-> items, threw |-> FALSE,
                                  notified |-> FALSE]
                   /\ UNCHANGED <<liquit, listatus>>
  /\ UNCHANGED <<lisource, lievent, lifetch, liresp>>
  /\ UNCHANGED <<lilookups, markerVars, outsideLineItem>>

\* patchOpportunityItems resolves (200) or rejects: the catch of parseItems
\* logs the error and rethrows it, and so does the catch of the workflow; the
\* handler answers 500.
PatchOpportunityItemsEnds(ok) ==
  /\ lipc = "patch"
  /\ lipc' = "done"
  /\ listatus' = HandlerStatus(~ok)
  /\ lipatch' = [lipatch EXCEPT !.threw = ~ok]
  /\ UNCHANGED <<lisource, lievent, lifetch, liresp, liitems, liquit>>
  /\ UNCHANGED <<lilookups, markerVars, outsideLineItem>>

\* The server takes up the next request once the one before is answered.
NextRequest ==
  /\ lipc = "done"
  /\ lirequests < MaxItemRequests
  /\ lirequests' = lirequests + 1
  /\ lipc' = "idle"
  /\ lisource' = "none"
  /\ lievent' = NoItemEvent
  /\ lifetch' = [i \in LineItemIds |-> "ok"]
  /\ liresp' = NoResponse
  /\ liitems' = <<>>
  /\ lipatch' = NoPatch
  /\ liquit' = ""
  /\ listatus' = 0
  /\ limargin' = "none"
  /\ UNCHANGED <<lilookups, linow, mohaveSetAt, lipriceAt, outsideLineItem>>

\* Time passes between two requests.
ItemTick ==
  /\ lipc = "idle"
  /\ linow < MaxItemTime
  /\ linow' = linow + TickSeconds
  /\ UNCHANGED <<lipc, lisource, lievent, lifetch, liresp, liitems, lipatch,
                 liquit, listatus, lilookups, mohaveSetAt, lipriceAt, limargin,
                 lirequests, outsideLineItem>>

LineItemNext ==
  \/ \E event \in ItemEvents, fetch \in [LineItemIds -> FetchOutcomes] :
       \/ HandleLineItemCreation(event, fetch)
       \/ HandleLineItemPropertyChange(event, fetch)
  \/ \E dealId \in {"", "2222"}, fetch \in [LineItemIds -> FetchOutcomes] :
       HandleQuotePublished(dealId, fetch)
  \/ \E dealname \in DealNames, dealstage \in ItemDealStages,
        pipeline \in Pipelines, opportunityNumber \in OpportunityNumbers,
        netsuiteId \in NetsuiteIds,
        lineItems \in LineItemAssociations, companies \in CompanyAssociations,
        redisReady \in BOOLEAN :
       CheckItemDealValidity(
         DealPropertyCheckResponse(dealname, dealstage, pipeline,
                                   opportunityNumber, netsuiteId, lineItems,
                                   companies), redisReady)
  \/ CheckItemDealValidityFails
  \/ GetDealItemsDataForProcessing
  \/ \E ok \in BOOLEAN : PatchOpportunityItemsEnds(ok)

\* A series of creations and property changes of the items of one deal that
\* passes the business rules or is closed and lost.
SeriesEvents ==
  {e \in ItemEvents : /\ e.propertyName \in {"price", "hs_margin_acv"}
                      /\ e.lineItemCreated = 1000
                      /\ e.hasLineItemProperties}
SeriesCreations == {e \in SeriesEvents : e.propertyName = "price"}
SeriesFetches ==
  {[i \in LineItemIds |-> "ok"],
   [i \in LineItemIds |-> IF i = "i2" THEN "error" ELSE "ok"]}
SeriesResponses ==
  {DealPropertyCheckResponse("Acme renewal", dealstage, "default", "", "9001",
                             <<"i1", "i2">>, <<>>) :
     dealstage \in {"qualifiedtobuy", "closedlost"}}

LineItemSeriesNext ==
  \/ \E event \in SeriesEvents, fetch \in SeriesFetches :
       HandleLineItemPropertyChange(event, fetch)
  \/ \E event \in SeriesCreations, fetch \in SeriesFetches :
       HandleLineItemCreation(event, fetch)
  \/ \E response \in SeriesResponses, redisReady \in BOOLEAN :
       CheckItemDealValidity(response, redisReady)
  \/ CheckItemDealValidityFails
  \/ GetDealItemsDataForProcessing
  \/ \E ok \in BOOLEAN : PatchOpportunityItemsEnds(ok)
  \/ NextRequest
  \/ ItemTick

----------------------------------------------------------------------------
(* Price override: WebhookController.handlePriceChange and                  *)
(* processMohavePriceChange, called with the arguments                      *)
(* processLineItemPropertyChange hands over for a change of price           *)

\* purchasing_contract_id of the deal of the item.
ContractIds == {"150", "200"}
\* The price texts of the events and the mohave_price texts of the items:
\* "" is the empty property.
PriceTexts == {"12.50", "20.00"}
AnchorTexts == {"", "0", "12.50"}
NoLineItemProperties ==
  [present |-> FALSE, hs_object_id |-> Undef, mohave_price |-> ""]
LineItemSnapshots ==
  {NoLineItemProperties} \cup
  [present : {TRUE}, hs_object_id : LineItemIds, mohave_price : AnchorTexts]
NoPriceChangeArgs ==
  [purchasingContractId |-> "", lineItemProperties |-> NoLineItemProperties,
   hsValue |-> Undef]

\* line 489: lineItemProperties?.mohave_price && mohave_price !== '0'
HasMohavePriceAnchor(lineItemProperties) ==
  /\ lineItemProperties.present
  /\ lineItemProperties.mohave_price # ""
  /\ lineItemProperties.mohave_price # "0"

\* A variant of the operator below for which no price matches.
PriceMatchesMohaveNever(hsValue, lineItemProperties) == FALSE

\* line 493: hsValue === lineItemProperties.mohave_price
PriceMatchesMohave(hsValue, lineItemProperties) ==
  hsValue = lineItemProperties.mohave_price

\* HubSpotService.updateDealProperties: PATCH /crm/v3/objects/deals/{dealId}
\* with the body {properties}.
UpdateDealPropertiesRequest(dealId, properties) ==
  [object |-> "deals", id |-> dealId, body |-> [properties |-> properties]]

\* LineItemService.updateLineItemProperties hands its two arguments to
\* hubspotService.updateDealProperties.
UpdateLineItemPropertiesRequest(itemId, properties) ==
  UpdateDealPropertiesRequest(itemId, properties)

PriceChangeInit ==
  /\ pcpc = "idle"
  /\ pcargs = NoPriceChangeArgs
  /\ pcmarkers = {}
  /\ hsRequests = <<>>
  /\ pcthrew = FALSE
  /\ pccalls = 0

\* handlePriceChange up to the await of storeMohavePriceChange, for an item
\* of a deal with the given purchasing contract id.
HandlePriceChange(purchasingContractId, lineItemProperties, hsValue) ==
  /\ pcpc \in {"idle", "done"}
  /\ pccalls < MaxPriceChanges
  /\ pccalls' = pccalls + 1
  /\ pcargs' = [purchasingContractId |-> purchasingContractId,
                lineItemProperties |-> lineItemProperties,
                hsValue |-> hsValue]
  /\ pcpc' = IF HasMohavePriceAnchor(lineItemProperties) THEN "store"
             ELSE "done"
  /\ pcthrew' = FALSE
  /\ UNCHANGED <<pcmarkers, hsRequests>>
  /\ UNCHANGED outsidePriceChange

\* storeMohavePriceChange resolves (it stores nothing when Redis is not
\* ready or setex fails); lines 493-498, and processMohavePriceChange up to
\* the await of updateLineItemProperties.
StoreMohavePriceChange(stored) ==
  /\ pcpc = "store"
  /\ LET lineItemProperties == pcargs.lineItemProperties
     IN  /\ pcmarkers' = IF stored
                           THEN pcmarkers \cup {lineItemProperties.hs_object_id}
                         ELSE pcmarkers
         /\ IF PriceMatchesMohave(pcargs.hsValue, lineItemProperties)
              THEN pcpc' = "done" /\ UNCHANGED hsRequests
              ELSE /\ pcpc' = "update"
                   /\ hsRequests' = Append(hsRequests,
                        UpdateLineItemPropertiesRequest(
                          lineItemProperties.hs_object_id,
                          [properties |->
                             [price |-> lineItemProperties.mohave_price]]))
  /\ UNCHANGED <<pcargs, pcthrew, pccalls>>
  /\ UNCHANGED outsidePriceChange

\* updateLineItemProperties resolves, or rejects and processMohavePriceChange
\* rethrows.
UpdateLineItemPropertiesEnds(ok) ==
  /\ pcpc = "update"
  /\ pcpc' = "done"
  /\ pcthrew' = ~ok
  /\ UNCHANGED <<pcargs, pcmarkers, hsRequests, pccalls>>
  /\ UNCHANGED outsidePriceChange

PriceChangeNext ==
  \/ \E purchasingContractId \in ContractIds,
        lineItemProperties \in LineItemSnapshots, hsValue \in PriceTexts :
       HandlePriceChange(purchasingContractId, lineItemProperties, hsValue)
  \/ \E stored \in BOOLEAN : StoreMohavePriceChange(stored)
  \/ \E ok \in BOOLEAN : UpdateLineItemPropertiesEnds(ok)

----------------------------------------------------------------------------
(* Line-item aggregation: LineItemService.getDealItemsDataForProcessing     *)

\* The line-item associations a deal may have.
DealLineItemLists ==
  {<<>>, <<"i1">>, <<"i2">>, <<"i1", "i2">>, <<"i2", "i1">>}
NoAggregationArgs ==
  [dealLineItems |-> <<>>, hasLineItemProperties |-> FALSE,
   source |-> "none", fetch |-> [i \in LineItemIds |-> "ok"]]

AggregationInit ==
  /\ aggpc = "idle"
  /\ aggargs = NoAggregationArgs
  /\ aggdata = NoItemsData

\* One call of getDealItemsDataForProcessing, from entry to return.
GetDealItemsDataForProcessingCall(dealLineItems, hasLineItemProperties, source, fetch) ==
  /\ aggpc = "idle"
  /\ aggpc' = "done"
  /\ aggargs' = [dealLineItems |-> dealLineItems,
                 hasLineItemProperties |-> hasLineItemProperties,
                 source |-> source, fetch |-> fetch]
  /\ aggdata' = DealItemsData(dealLineItems, hasLineItemProperties, source,
                              fetch)
  /\ UNCHANGED outsideAggregation

AggregationNext ==
  \E dealLineItems \in DealLineItemLists, hasLineItemProperties \in BOOLEAN,
     source \in ItemSources, fetch \in [LineItemIds -> FetchOutcomes] :
    GetDealItemsDataForProcessingCall(dealLineItems, hasLineItemProperties,
                                      source, fetch)

----------------------------------------------------------------------------
(* Line-item mapping: MappingService.transformLineItemsToOpportunityItems, *)
(* validateAndCleanLineItem, and the cleaning step of                       *)
(* LineItemService.getDealItemsDataForProcessing                            *)

\* A HubSpot property value: undefined, the empty string, or the text of a
\* decimal number with scale digits after the point ("25.00" has digits
\* 2500 and scale 2, "25" has digits 25 and scale 0).
Undefined == [kind |-> "undefined", digits |-> 0, scale |-> 0]
EmptyString == [kind |-> "empty", digits |-> 0, scale |-> 0]
Dec(digits, scale) == [kind |-> "decimal", digits |-> digits, scale |-> scale]

\* ---- Number: IEEE 754 binary64, for positive values below 2^52 ----
\* A natural number of any size is a sequence of limbs, least significant
\* first, without leading zero limbs.
Limb == 2^20
MantissaBits == 53

RECURSIVE Strip(_)
Strip(x) ==
  IF x = <<>> \/ x[Len(x)] # 0 THEN x ELSE Strip(SubSeq(x, 1, Len(x) - 1))

BigOf(n) == Strip(<<n % Limb, n \div Limb>>)

RECURSIVE BitLenInt(_)
BitLenInt(n) == IF n = 0 THEN 0 ELSE 1 + BitLenInt(n \div 2)
BitLen(x) == IF x = <<>> THEN 0 ELSE 20 * (Len(x) - 1) + BitLenInt(x[Len(x)])

\* x * c + carry, for c and carry up to 1024
RECURSIVE MulSmall(_, _, _)
MulSmall(x, c, carry) ==
  IF x = <<>> THEN (IF carry = 0 THEN <<>> ELSE <<carry>>)
  ELSE LET t == Head(x) * c + carry
       IN  <<t % Limb>> \o MulSmall(Tail(x), c, t \div Limb)

\* quotient and remainder of x by d, for d up to 1024
DivSmall(x, d) ==
  LET n == Len(x)
      R[i \in 1..(n + 1)] ==
        IF i = n + 1 THEN 0 ELSE (R[i + 1] * Limb + x[i]) % d
      Q == [i \in 1..n |-> (R[i + 1] * Limb + x[i]) \div d]
  IN  [quot |-> Strip(Q), rem |-> R[1]]

\* x * 2^r and floor(x / 2^r)
RECURSIVE ShiftLeft(_, _)
ShiftLeft(x, r) ==
  IF r = 0 \/ x = <<>> THEN x
  ELSE IF r >= 20 THEN <<0>> \o ShiftLeft(x, r - 20)
  ELSE IF r >= 10 THEN ShiftLeft(MulSmall(x, 1024, 0), r - 10)
  ELSE MulSmall(x, 2^r, 0)
RECURSIVE ShiftRight(_, _)
ShiftRight(x, r) ==
  IF r = 0 \/ x = <<>> THEN x
  ELSE IF r >= 20 THEN ShiftRight(Tail(x), r - 20)
  ELSE IF r >= 10 THEN ShiftRight(DivSmall(x, 1024).quot, r - 10)
  ELSE DivSmall(x, 2^r).quot

\* x / d rounded to the nearest natural number, a tie to the even one
RoundedQuotient(x, d) ==
  LET qr == DivSmall(x, d)
      odd == qr.quot # <<>> /\ qr.quot[1] % 2 = 1
  IN  IF 2 * qr.rem > d \/ (2 * qr.rem = d /\ odd)
        THEN MulSmall(qr.quot, 1, 1)
        ELSE qr.quot

\* A double is zero or m * 2^e with a mantissa m of 53 bits.
DoubleZero == [m |-> <<>>, e |-> 0]
\* the double nearest to x * 2^e
RoundToDouble(x, e) ==
  IF x = <<>> THEN DoubleZero
  ELSE LET r == BitLen(x) - MantissaBits
       IN  IF r <= 0 THEN [m |-> ShiftLeft(x, -r), e |-> e + r]
           ELSE LET q == RoundedQuotient(x, 2^r)
                IN  IF BitLen(q) > MantissaBits
                      THEN [m |-> ShiftRight(q, 1), e |-> e + r + 1]
                      ELSE [m |-> q, e |-> e + r]

\* Number(text) of a decimal text: the double nearest to digits / 10^scale
NumberOfDecimal(digits, scale) ==
  IF digits = 0 THEN DoubleZero
  ELSE LET d == 10^scale
           wide == BitLen(DivSmall(ShiftLeft(BigOf(digits), 64), d).quot)
           s == 64 - (wide - MantissaBits)
           q == RoundedQuotient(ShiftLeft(BigOf(digits), s), d)
       IN  IF BitLen(q) > MantissaBits
             THEN [m |-> ShiftRight(q, 1), e |-> 1 - s]
             ELSE [m |-> q, e |-> -s]

\* x * c in binary64, c a whole number up to 1024 (itself a double)
TimesWhole(x, c) == RoundToDouble(MulSmall(x.m, c, 0), x.e)

\* Math.round(x): floor(x + 1/2), for a double below 2^52
MathRound(x) ==
  IF x.m = <<>> THEN 0
  ELSE LET t == ShiftRight(x.m, (-x.e) - 1)
           low == IF t = <<>> THEN 0 ELSE t[1]
           high == IF Len(t) > 1 THEN t[2] ELSE 0
       IN  (high * Limb + low + 1) \div 2

\* ---- line items ----
POSITION_SENTINEL == 999
PLACEHOLDER_ITEM == "33575"

\* A non-empty string is truthy; undefined and "" are not.
Truthy(text) == text # Undef /\ text # ""

\* String(n) of the number a decimal text stands for: no trailing zeros.
RECURSIVE Canonical(_)
Canonical(v) ==
  IF v.scale > 0 /\ v.digits % 10 = 0
    THEN Canonical(Dec(v.digits \div 10, v.scale - 1))
    ELSE v
\* String(Number(v) || dflt): undefined gives NaN, "" and "0" give 0
StringOfNumberOr(v, dflt) ==
  IF v.kind = "decimal" /\ v.digits # 0 THEN Canonical(v) ELSE Dec(dflt, 0)
\* v || ''
OrEmpty(v) == IF v.kind = "decimal" THEN v ELSE EmptyString

\* The line items the calls are given, before their hs_object_id is set.
\* Quantities and positions are texts of whole numbers.
Template(netsuite_id, position, quantity, cost, ns_cost, price, ns_price, description) ==
  [hs_object_id |-> Undef, hs_sku |-> "SKU-1", quantity |-> quantity,
   price |-> price, description |-> description,
   hs_position_on_quote |-> position, hs_cost_of_goods_sold |-> cost,
   netsuite_id |-> netsuite_id, ns_product_cost |-> ns_cost,
   ns_product_price |-> ns_price]
CatalogItem(position) ==
  Template("12345", position, Dec(1, 0), Dec(2500, 2), Dec(2500, 2),
           Dec(10000, 2), Dec(10000, 2), Undef)
ItemTemplates ==
  {CatalogItem(p) : p \in {Undefined, Dec(0, 0), Dec(1, 0), Dec(2, 0),
                           Dec(1000, 0)}}
  \cup
  {Template("12345", Dec(1, 0), Dec(3, 0), Dec(2000, 2), Dec(2500, 2),
            Dec(7500, 2), Dec(10000, 2), Undef),
   Template("12345", Dec(1, 0), Dec(1, 0), Dec(25, 0), Dec(2500, 2),
            Dec(100, 0), Dec(10000, 2), Undef),
   Template(Undef, Dec(1, 0), Dec(3, 0), Dec(12345, 3), Undefined,
            Dec(5000, 2), Undefined, "Custom work"),
   Template(PLACEHOLDER_ITEM, Dec(2, 0), Dec(1, 0), Dec(1005, 3), Undefined,
            Dec(5000, 2), Undefined, "Custom work"),
   Template(Undef, Dec(2, 0), Dec(2, 0), Undefined, Undefined,
            Dec(5000, 2), Undefined, Undef)}
ItemLists ==
  UNION {[1..n -> ItemTemplates] : n \in 1..MaxItems}
WithIds(items) ==
  [i \in 1..Len(items) |-> [items[i] EXCEPT !.hs_object_id = ToString(i)]]

\* validateAndCleanLineItem
ValidateAndCleanLineItem(item) ==
  [hs_object_id |-> item.hs_object_id,
   hs_sku |-> IF Truthy(item.hs_sku) THEN item.hs_sku ELSE "",
   quantity |-> StringOfNumberOr(item.quantity, 0),
   price |-> StringOfNumberOr(item.price, 0),
   description |-> IF Truthy(item.description) THEN item.description ELSE "",
   hs_position_on_quote |->
     StringOfNumberOr(item.hs_position_on_quote, POSITION_SENTINEL),
   hs_cost_of_goods_sold |-> StringOfNumberOr(item.hs_cost_of_goods_sold, 0),
   netsuite_id |-> IF Truthy(item.netsuite_id) THEN item.netsuite_id ELSE "",
   ns_product_cost |-> OrEmpty(item.ns_product_cost),
   ns_product_price |-> OrEmpty(item.ns_product_price)]

\* Number(item.hs_position_on_quote) || 999
PositionOf(item) ==
  LET p == item.hs_position_on_quote
  IN  IF p.kind = "decimal" /\ p.digits # 0
        THEN p.digits \div 10^p.scale
        ELSE POSITION_SENTINEL

\* sortLineItemsByPosition: Array.prototype.sort is stable
RECURSIVE InsertByPosition(_, _)
InsertByPosition(sorted, item) ==
  IF sorted = <<>> THEN <<item>>
  ELSE IF PositionOf(Head(sorted)) - PositionOf(item) <= 0
    THEN <<Head(sorted)>> \o InsertByPosition(Tail(sorted), item)
    ELSE <<item>> \o sorted
RECURSIVE SortLineItemsByPosition(_)
SortLineItemsByPosition(items) ==
  IF items = <<>> THEN <<>>
  ELSE InsertByPosition(
         SortLineItemsByPosition(SubSeq(items, 1, Len(items) - 1)),
         items[Len(items)])

\* parseInt(quantity) || 0 and Number(quantity) || 0, of a whole quantity
QuantityOf(item) ==
  IF item.quantity.kind = "decimal"
    THEN item.quantity.digits \div 10^item.quantity.scale
    ELSE 0

\* calculateCostEstimate, in cents: the result is this whole number / 100
CalculateCostEstimate(cost, quantity) ==
  IF cost.kind # "decimal" THEN 0
  ELSE MathRound(
         TimesWhole(
           TimesWhole(NumberOfDecimal(cost.digits, cost.scale), quantity),
           100))

\* Number(item.price) || 0, as the text of the number
RateOf(item) == StringOfNumberOr(item.price, 0)

\* a !== b of two property values
DiffersStrictly(a, b) == a # b

\* transformNSItemProperties
TransformNSItemProperties(item) ==
  LET custom == DiffersStrictly(item.hs_cost_of_goods_sold,
                                item.ns_product_cost)
  IN  [itemId |-> item.netsuite_id,
       custcol_itemmpn |-> Undef,
       quantity |-> QuantityOf(item),
       rate |-> RateOf(item),
       hasCostEstimateType |-> custom,
       hasCostEstimate |-> custom,
       costestimate |->
         IF custom
           THEN CalculateCostEstimate(item.hs_cost_of_goods_sold,
                                      QuantityOf(item))
           ELSE 0,
       hasPrice |-> DiffersStrictly(item.price, item.ns_product_price),
       description |-> Undef]

\* transformLineItemToOpportunityItem
TransformLineItemToOpportunityItem(hsLineItem) ==
  IF hsLineItem.netsuite_id = PLACEHOLDER_ITEM \/ ~Truthy(hsLineItem.netsuite_id)
    THEN [itemId |-> PLACEHOLDER_ITEM,
          custcol_itemmpn |-> hsLineItem.hs_sku,
          quantity |-> QuantityOf(hsLineItem),
          rate |-> RateOf(hsLineItem),
          hasCostEstimateType |-> FALSE,
          hasCostEstimate |-> TRUE,
          costestimate |->
            CalculateCostEstimate(hsLineItem.hs_cost_of_goods_sold,
                                  QuantityOf(hsLineItem)),
          hasPrice |-> FALSE,
          description |->
            IF Truthy(hsLineItem.description) THEN hsLineItem.description
            ELSE IF Truthy(hsLineItem.hs_sku)
              THEN "Item: " \o hsLineItem.hs_sku
              ELSE "Item: Unknown"]
    ELSE TransformNSItemProperties(hsLineItem)

MappingInit ==
  /\ mpc = "idle"
  /\ mitems = <<>>
  /\ mcleaned = <<>>
  /\ msorted = <<>>
  /\ mout = <<>>

\* transformLineItemsToOpportunityItems called with the items as they are
TransformLineItemsToOpportunityItems(items) ==
  /\ mpc = "idle"
  /\ mpc' = "done"
  /\ mitems' = items
  /\ mcleaned' = items
  /\ msorted' = SortLineItemsByPosition(items)
  /\ mout' = [i \in 1..Len(items) |->
               TransformLineItemToOpportunityItem(msorted'[i])]
  /\ UNCHANGED outsideMapping

\* The aggregation of parseItems: getDealItemsDataForProcessing cleans every
\* item, buildOpportunityItems transforms the cleaned items.
BuildOpportunityItems(items) ==
  /\ mpc = "idle"
  /\ mpc' = "done"
  /\ mitems' = items
  /\ mcleaned' = [i \in 1..Len(items) |-> ValidateAndCleanLineItem(items[i])]
  /\ msorted' = SortLineItemsByPosition(mcleaned')
  /\ mout' = [i \in 1..Len(items) |->
               TransformLineItemToOpportunityItem(msorted'[i])]
  /\ UNCHANGED outsideMapping

MappingNext ==
  \E list \in ItemLists :
    \/ TransformLineItemsToOpportunityItems(WithIds(list))
    \/ BuildOpportunityItems(WithIds(list))

----------------------------------------------------------------------------
Init ==
  /\ LedgerInit /\ CacheInit /\ BreakerInit /\ RetryInit /\ HookInit
  /\ LineItemInit /\ MappingInit /\ AggregationInit /\ PriceChangeInit

SpecLedger == Init /\ [][LedgerNext]_vars
SpecLedgerCleanup == Init /\ [][LedgerCleanupNext]_vars
SpecCache == Init /\ [][CacheNext]_vars
SpecBreakerInTurn == Init /\ [][BreakerNextInTurn]_vars
SpecBreaker == Init /\ [][BreakerNext]_vars
SpecRetry == Init /\ [][RetryNext]_vars
SpecHook == Init /\ [][HookNext]_vars
SpecHookInTurn == Init /\ [][HookNextInTurn]_vars
SpecLineItem == Init /\ [][LineItemNext]_vars
SpecLineItemSeries == Init /\ [][LineItemSeriesNext]_vars
SpecMapping == Init /\ [][MappingNext]_vars
SpecAggregation == Init /\ [][AggregationNext]_vars
SpecPriceChange == Init /\ [][PriceChangeNext]_vars

----------------------------------------------------------------------------
(* Claims about the idempotency ledger *)

Invokers(k) == {c \in Callers : lpc[c] # "idle" /\ lkey[c] = k /\ opCalls[c] > 0}

\* No Redis command threw, no record expired and no operation() failed: the
\* run in which the ledger alone decides who executes.
LedgerClean ==
  /\ ~removed
  /\ \A c \in Callers : faultAt[c] = "none" /\ (opCalls[c] > 0 => firstOutcome[c].ok)

\* C1: when checkIdempotency is called concurrently with one key (Redis
\* reachable, record alive, operation succeeding), the wrapped operation is
\* executed at most once for the key under every interleaving, and every
\* other call that has returned carries the stored result or the in-flight
\* signal.
C1_AtMostOnce ==
  LedgerClean =>
    \A k \in LedgerKeys :
      /\ Cardinality(Invokers(k)) <= 1
      /\ \A c \in Invokers(k) : opCalls[c] = 1
      /\ \A c \in Callers :
           (lpc[c] = "done" /\ lkey[c] = k /\ opCalls[c] = 0) =>
             /\ lret[c].isDuplicate
             /\ \/ lret[c].success
                \/ lret[c].error = "Operation is already being processed"

\* C2: a call whose GET found a completed record has returned that record's
\* result with isDuplicate = true, and one whose GET found a processing
\* record has returned the in-flight signal without a result; neither
\* invoked the operation nor wrote to the store.
C2_DuplicateShortCircuit ==
  \A c \in Callers :
    /\ readRec[c].status = "completed" =>
         /\ lpc[c] = "done"
         /\ lret[c].returned /\ lret[c].success /\ lret[c].isDuplicate
         /\ lret[c].result = readRec[c].result
         /\ opCalls[c] = 0 /\ writes[c] = 0
    /\ readRec[c].status = "processing" =>
         /\ lpc[c] = "done"
         /\ lret[c].returned /\ ~lret[c].success /\ lret[c].isDuplicate
         /\ lret[c].result = Undef
         /\ lret[c].error = "Operation is already being processed"
         /\ opCalls[c] = 0 /\ writes[c] = 0

\* A call has read the completed record that another call left (after its
\* processing and completed writes); the result is the record's JSON copy.
C2_Witness ==
  \E c \in Callers :
    /\ readRec[c].status = "completed" /\ lpc[c] = "done"
    /\ readRec[c].result = "null"
    /\ \E d \in Callers : d # c /\ writes[d] = 2

\* C3: a call whose wrapped operation failed reports that failure: it has
\* returned success = false with the error of that operation, never a
\* success.
C3_OriginalErrorObserved ==
  \A c \in Callers :
    (lpc[c] = "done" /\ opCalls[c] > 0 /\ ~firstOutcome[c].ok) =>
      /\ ~lret[c].success
      /\ lret[c].error = firstOutcome[c].val

\* C4: a call that met a Redis error at any step (the GET, the processing
\* write, the completed or failed write) goes on to run the operation, and
\* what it returns is the outcome of the operation, not the ledger's error.
C4_FailOpen ==
  \A c \in Callers :
    /\ faultAt[c] # "none" => lpc[c] \in {"fail", "catch", "done"}
    /\ (lpc[c] = "done" /\ faultAt[c] # "none") =>
         /\ opCalls[c] >= 1
         /\ lret[c].returned /\ ~lret[c].isDuplicate
         /\ lret[c].success = lastOutcome[c].ok
         /\ lastOutcome[c].ok => lret[c].result = lastOutcome[c].val
         /\ ~lastOutcome[c].ok => lret[c].error = lastOutcome[c].val

\* C25: within one checkIdempotency call the wrapped operation is invoked at
\* most once, also when the write of the completed or failed record throws
\* after the operation has run.
C25_InvokedOncePerCall ==
  \A c \in Callers : opCalls[c] <= 1

\* C36: a run of cleanupExpiredIdempotencyKeys leaves every record alone
\* that is in the store (its TTL has not run out) with status processing or
\* completed.
C36_CleanupKeepsLiveRecords ==
  [][cleanups' # cleanups =>
       \A k \in LedgerKeys :
         store[k].status \in {"processing", "completed"} =>
           store'[k] = store[k]]_vars

----------------------------------------------------------------------------
(* Claims about the dedup / ordering cache *)

\* The step in which call c returns; accepted tells what it returns.
Returns(c, accepted) ==
  /\ cpc[c] \in {"get", "del"}
  /\ cpc'[c] = "done"
  /\ cres'[c] = accepted
  /\ cfault'[c] = "none"

\* C6: of two events for one (hsId, hsProperty) with occurredAt t1 < t2, the
\* t1 event is never accepted once the t2 event has been accepted in the
\* same TTL window (the cache working throughout).
C6_OlderNeverWins ==
  [][\A c \in Checkers :
       Returns(c, TRUE) => cev[c].occurredAt >= seenMax[KeyOf(cev[c])]]_vars

\* C7: a call that finds no entry under its key stores its event under that
\* key and returns true.
C7_AbsentIsRecorded ==
  [][\A c \in Checkers :
       (Returns(c, cres'[c]) /\ cpc[c] = "get" /\ ~cache[KeyOf(cev[c])].present) =>
         /\ cres'[c]
         /\ cache'[KeyOf(cev[c])].present
         /\ cache'[KeyOf(cev[c])].event = cev[c]]_vars

\* C8: with an entry stored under the key, an event that is not strictly
\* newer than the stored one is rejected and the entry stays; only a
\* strictly newer event goes on to delete the entry and return true.
C8_StoredEntryDecides ==
  [][\A c \in Checkers :
       LET k == KeyOf(cev[c]) IN
         /\ (cpc[c] = "get" /\ cpc'[c] # "get" /\ cfault'[c] = "none"
               /\ cache[k].present) =>
              IF cev[c].occurredAt > cache[k].event.occurredAt
              THEN cpc'[c] = "del" /\ cache'[k] = cache[k]
              ELSE cpc'[c] = "done" /\ ~cres'[c] /\ cache'[k] = cache[k]
         /\ (cpc[c] = "del" /\ Returns(c, cres'[c])) =>
              cres'[c] /\ ~cache'[k].present]_vars

\* C9: a call during which the cache was not ready, or a cache command
\* threw, returns true.
C9_CacheFailOpen ==
  \A c \in Checkers :
    /\ cfault[c] # "none" => cpc[c] = "done"
    /\ (cpc[c] = "done" /\ cfault[c] # "none") => cres[c]

\* One call lost its GET and one its DEL, both returned true, and the key
\* still holds the newest event.
C9_Witness ==
  /\ \E c \in Checkers : cpc[c] = "done" /\ cfault[c] = "getError" /\ cres[c]
  /\ \E c \in Checkers : cpc[c] = "done" /\ cfault[c] = "delError" /\ cres[c]
  /\ \E k \in CacheKeys : cache[k].present /\ cache[k].event.occurredAt = 2

----------------------------------------------------------------------------
(* Claims about the circuit breaker *)

\* C10: once Threshold calls for a service have failed in a row, the breaker
\* of the service is OPEN for as long as less than Timeout has passed since
\* the last failure, and every call begun in that time is rejected without
\* invoking the operation.
C10_OpenAfterThreshold ==
  /\ \A s \in Services : OpenWindow(s) => circuitBreakerStates[s] = "OPEN"
  /\ \A p \in Clients :
       inWindow[p] => bpc[p] = "done" /\ bres[p] = "rejected"

\* A call was rejected inside the window, after time has moved on from the
\* last of the Threshold failures.
C10_Witness ==
  \E p \in Clients :
    /\ inWindow[p] /\ bres[p] = "rejected"
    /\ consec[bsvc[p]] = Threshold
    /\ now > lastFailureTimes[bsvc[p]]
    /\ OpenWindow(bsvc[p])

\* The calls for service s that were let through while the breaker was
\* half-open and still await their operation.
Probes(s) ==
  {p \in Clients : bpc[p] = "op" /\ bsvc[p] = s /\ bstate[p] = "HALF_OPEN"}

\* C11: once Timeout has elapsed since the breaker of a service opened,
\* exactly one call is let through to invoke the operation: no call is let
\* through in the half-open state while another such call is under way; and
\* when a call let through in the half-open state succeeds, the breaker of
\* the service is CLOSED.
C11_SingleProbe ==
  [][\A p \in Clients :
       /\ (bpc[p] # "op" /\ bpc'[p] = "op" /\ bstate'[p] = "HALF_OPEN") =>
            Probes(bsvc'[p]) = {}
       /\ (p \in Probes(bsvc[p]) /\ bres'[p] = "ok") =>
            circuitBreakerStates'[bsvc[p]] = "CLOSED"]_vars

\* A half-open call of service s has failed less than Timeout ago.
ReopenedWindow(s) ==
  probeFailedAt[s] >= 0 /\ now - probeFailedAt[s] < Timeout

\* C12: when a call let through in the half-open state fails, the breaker
\* of its service is OPEN again, and no call for the service begun less than
\* Timeout after that failure gets to invoke the operation.
C12_FailedProbeReopens ==
  [][\A p \in Clients :
       /\ (p \in Probes(bsvc[p]) /\ bres'[p] = "failed") =>
            circuitBreakerStates'[bsvc[p]] = "OPEN"
       /\ (bpc[p] # "op" /\ bpc'[p] = "op") => ~ReopenedWindow(bsvc'[p])]_vars

\* C26: calls for one service may overlap; every failed call raises the stored
\* failure count of its service by exactly one, and once Threshold calls of
\* the service have failed with no success in between, the failure that
\* reaches Threshold leaves the breaker of the service OPEN.
C26_EveryFailureCounted ==
  [][\A p \in Clients :
       (bpc[p] = "op" /\ bres'[p] = "failed") =>
         /\ failureCounts'[bsvc[p]] = failureCounts[bsvc[p]] + 1
         /\ consec'[bsvc[p]] >= Threshold =>
              circuitBreakerStates'[bsvc[p]] = "OPEN"]_vars

\* C27: the breaker of a service opens only on a failure that is at least the
\* Threshold-th in a row (no successful call of the service in between), and
\* a successful call made while the breaker is closed leaves the stored
\* failure count at zero.
C27_OpensOnConsecutiveFailures ==
  [][\A p \in Clients :
       /\ (circuitBreakerStates[bsvc[p]] # "OPEN" /\ bpc[p] = "op"
             /\ circuitBreakerStates'[bsvc[p]] = "OPEN") =>
            consec'[bsvc[p]] >= Threshold
       /\ (bpc[p] = "op" /\ bres'[p] = "ok" /\ bstate[p] = "CLOSED") =>
            failureCounts'[bsvc[p]] = 0]_vars

----------------------------------------------------------------------------
(* Claims about retry *)

\* C13: executeWithRetry invokes the operation at most maxRetries + 1 times
\* for every maxRetries >= 0, invokes nothing after the first success, and
\* returns the value of that success.
C13_AtMostMaxRetriesPlusOne ==
  /\ Len(rhist) <= rmax + 1
  /\ \A i \in 1..Len(rhist) :
       rhist[i].ok =>
         /\ i = Len(rhist)
         /\ rpc = "done"
         /\ rret.kind = "value" /\ rret.val = rhist[i].val

\* C14: a call whose last attempt failed with an error the retry predicate
\* rejects has stopped; a call that has ended after a failed last attempt
\* has thrown the error of that attempt; and no call has returned a value
\* without a successful invocation.
C14_FailsWithLastError ==
  /\ (rhist # <<>> /\ ~rhist[Len(rhist)].ok
        /\ ~RetryCondition(rhist[Len(rhist)])) => rpc = "done"
  /\ (rpc = "done" /\ ~rhist[Len(rhist)].ok) =>
       /\ rret.kind = "error"
       /\ rret.status = rhist[Len(rhist)].status
  /\ rret.kind = "value" => (rhist # <<>> /\ rhist[Len(rhist)].ok)

\* Both ways of failing: every attempt of a call with maxRetries 2 failed
\* with a retryable error, the last with status 429.
C14_Witness ==
  /\ rpc = "done" /\ rmax = 2 /\ Len(rhist) = 3
  /\ rret.kind = "error" /\ rret.status = 429
  /\ rhist[1].status = 503

----------------------------------------------------------------------------
(* Claims about the deal webhook entry point *)

\* C5: a deal.creation webhook event (same objectId and occurredAt) causes
\* at most one NetSuite opportunity write, however often it is delivered.
C5_DuplicateSyncedOnce ==
  \A e \in CreationEvents : erpWrites[e] <= 1

\* C22 as stated: every request is answered 200, all its elements visited.
C22_AlwaysAnswers200 ==
  \A r \in Requests :
    hpc[r] = "done" => hstatus[r] = 200 /\ hleft[r] = 0

\* C22: handleDealCreation answers 200 for every request whose body elements
\* are all objects, after the loop has visited every element, also when the
\* sync of an element threw: a sync that ends, by return or by throw, hands
\* over to the next element.  A body element that is no object (null) makes
\* the handler answer 500.
C22_Answers200UnlessMalformed ==
  [][\A r \in Requests :
       /\ (hpc[r] # "done" /\ hpc'[r] = "done") =>
            IF hbad'[r] THEN hstatus'[r] = 500
            ELSE hstatus'[r] = 200 /\ hleft'[r] = 0
       /\ (hret'[r] # hret[r] \/ hthrew'[r] # hthrew[r] \/ hleft'[r] < hleft[r]) =>
            hpc'[r] = "loop" /\ hleft'[r] = hleft[r] - 1 /\ hstatus'[r] = 0]_vars

\* A request was answered 200 although the sync of one of its elements threw,
\* and an element after that one was synced to NetSuite.
C22_Witness ==
  \E r \in Requests :
    hpc[r] = "done" /\ hstatus[r] = 200 /\ hthrew[r] /\ hret[r] = "id"

\* C24: when checkDealProperties finds the deal to be a test deal, in an
\* invalid stage or in an invalid pipeline, syncDealToNetSuite ends at once:
\* it writes no NetSuite opportunity, updates no HubSpot deal and returns
\* null.
C24_SkippedDealNotSynced ==
  [][\A r \in Requests :
       LET p == hsDeals[DealIdOf(hev[r].objectId)]
       IN  (/\ hpc[r] = "checkDealProperties" /\ hpc'[r] # hpc[r]
            /\ hret'[r] # "threw"
            /\ p.exists
            /\ \/ IsTestDeal(p.dealname)
               \/ IsInvalidDealStage(p.dealstage)
               \/ ~IsValidPipeline(p.pipeline)) =>
             /\ hret'[r] = "null" /\ hpc'[r] = "loop"
             /\ opportunities' = opportunities
             /\ hsDeals' = hsDeals
             /\ erpWrites' = erpWrites]_vars

\* A sync has returned null for a deal that is no test deal and in a valid
\* stage, but in a pipeline that is not valid.
C24_Witness ==
  \E r \in Requests, d \in DealIds :
    /\ hret[r] = "null" /\ hpc[r] = "loop"
    /\ hsDeals[d].exists /\ hsDeals[d].pipeline = "legacy"
    /\ ~IsTestDeal(hsDeals[d].dealname)
    /\ ~IsInvalidDealStage(hsDeals[d].dealstage)
    /\ opportunities = <<>>

\* C37: synchronizations of the same deal that run at the same time create
\* at most one NetSuite opportunity for the deal.
C37_OneOpportunityPerDeal ==
  \A i, j \in 1..Len(opportunities) :
    opportunities[i].dealId = opportunities[j].dealId => i = j

\* C39: the deal data syncDealToNetSuite writes to NetSuite is of a deal
\* snapshot that passed the test-deal, stage and pipeline checks.
C39_WrittenSnapshotWasValidated ==
  [][\A r \in Requests :
       (/\ hpc[r] = "writeOpportunity"
        /\ hpc'[r] # "writeOpportunity"
        /\ opportunities' # opportunities) => ~SkipsSync(hprops[r])]_vars

----------------------------------------------------------------------------
(* Claims about the line-item workflows *)

\* The business rules a deal must pass, stated on the response.
RejectedDeal(response) ==
  \/ response.dealStageClosed /\ ~response.dealStageClosedWon
  \/ ~response.dealStageClosedWon /\ response.netsuiteId = ""
  \/ response.isDealTest
  \/ response.isInvalidStage
  \/ ~response.dealPipelineValid
  \/ TestCompanyCheck(response.dealCompanies)

\* C15: the line-item creation workflow never calls patchOpportunityItems
\* when the deal is closed and not closed-won, is not closed-won and has no
\* NetSuite opportunity id, is a test deal, is in a disallowed stage, is in
\* an invalid pipeline, or is associated with a test company.
C15_CreationQuitsBeforeWrite ==
  (lisource = "itemCreate" /\ liresp # NoResponse /\ RejectedDeal(liresp))
    => (~lipatch.called /\ lipc = "done" /\ listatus = 200)

C15_Witness ==
  /\ lisource = "itemCreate"
  /\ lipc = "done"
  /\ liquit = "testCompany"
  /\ liresp.dealStageClosedWon
  /\ liresp.netsuiteId # ""
  /\ lievent.hasLineItemProperties
  /\ ~lipatch.called

\* C16: a property change (not of price or hs_margin_acv, not within one
\* second of the item's creation) or a published quote, of a deal that
\* passes every business rule, has an opportunity id and has an item that
\* can be retrieved, ends with patchOpportunityItems called for that
\* opportunity with the deal's items.
C16_AcceptedEventIsWritten ==
  (/\ lipc = "done"
   /\ liresp # NoResponse
   /\ \/ lisource = "quotePublished"
      \/ /\ lisource = "itemPropChange"
         /\ lievent.propertyName \notin {"price", "hs_margin_acv"}
         /\ ~TimestampEqualityCheck(lievent.occurredAt,
                                    lievent.lineItemCreated)
   /\ ~RejectedDeal(liresp)
   /\ liresp.netsuiteId # ""
   /\ ItemsDataForProcessing(liresp.dealLineItems,
         lievent.hasLineItemProperties, lisource, lifetch) # <<>>)
    => /\ lipatch.called
       /\ lipatch.opportunityId = liresp.netsuiteId
       /\ lipatch.items = ItemsDataForProcessing(liresp.dealLineItems,
             lievent.hasLineItemProperties, lisource, lifetch)

C28_FallbackLookupBeforeQuit ==
  (/\ lipc = "done"
   /\ liquit \in {"noOpportunityId", "parseNoOpportunityId"}
   /\ liresp.opportunityNumber # "") => lilookups > 0

\* The margin change at hand has run its course for a deal that passes every
\* business rule and has an opportunity id.
MarginChangeHandled ==
  /\ lipc = "done"
  /\ lisource = "itemPropChange"
  /\ lievent.propertyName = "hs_margin_acv"
  /\ liquit # "validityError"
  /\ ~RejectedDeal(liresp)
  /\ liresp.netsuiteId # ""

\* C21: a margin change of an item that comes less than MOHAVE_TTL after a
\* price change of the same item is not written to NetSuite; one that comes
\* MOHAVE_TTL or more after the price change is: patchOpportunityItems is
\* called with the items of the deal.
C21_MarginSuppressedWithinTtlOnly ==
  MarginChangeHandled =>
    /\ limargin = "within" => ~lipatch.called
    /\ limargin = "after" =>
         /\ lipatch.called
         /\ lipatch.items = ItemsDataForProcessing(liresp.dealLineItems,
               lievent.hasLineItemProperties, lisource, lifetch)

\* C31: when patchOpportunityItems has failed in a line-item workflow, the
\* failure has gone to the notification service and the error has been
\* rethrown to the caller (the handler answers 500).
C31_WriteFailureEscalated ==
  (lipc = "done" /\ lipatch.threw) =>
     (lipatch.notified /\ listatus = 500)

\* C38: parseItems never calls patchOpportunityItems with an empty or
\* missing opportunity id, nor with an empty list of items.
C38_PatchHasIdAndItems ==
  lipatch.called => (lipatch.opportunityId # "" /\ lipatch.items # <<>>)

\* parseItems has called patchOpportunityItems for a closed-won deal.
C38_Witness ==
  /\ lipc = "patch"
  /\ lipatch.called
  /\ liresp.dealStageClosedWon

\* C35: a workflow that quits on one of the validation checks reports the
\* earliest applicable reason in the order closed and not closed-won, no
\* opportunity id and not closed-won, test deal, disallowed stage, test
\* company, invalid pipeline, dedup rejected.
C35_QuitReasonInStatedOrder ==
  (/\ lipc = "done"
   /\ liquit \in {"closedNotWon", "noOpportunityId", "testDeal",
                  "invalidStage", "testCompany", "invalidPipeline",
                  "cacheInvalid"}) =>
     liquit =
       IF liresp.dealStageClosed /\ ~liresp.dealStageClosedWon
         THEN "closedNotWon"
       ELSE IF ~liresp.dealStageClosedWon /\ liresp.netsuiteId = ""
         THEN "noOpportunityId"
       ELSE IF liresp.isDealTest THEN "testDeal"
       ELSE IF liresp.isInvalidStage THEN "invalidStage"
       ELSE IF TestCompanyCheck(liresp.dealCompanies) THEN "testCompany"
       ELSE IF ~liresp.dealPipelineValid THEN "invalidPipeline"
       ELSE "cacheInvalid"

----------------------------------------------------------------------------
(* Claims about the price override *)

\* C32: a price change on an item with a mohave price causes a corrective
\* update only when the new price is not the mohave price, and at most one
\* per event: the event the corrective update causes, whose price is the
\* mohave price, causes no further update.
C32_RevertOnlyOnDivergence ==
  [][/\ Len(hsRequests') <= pccalls'
     /\ Len(hsRequests') > Len(hsRequests) =>
          /\ Len(hsRequests') = Len(hsRequests) + 1
          /\ pcargs.hsValue # pcargs.lineItemProperties.mohave_price]_vars

\* A divergent price change was answered with one corrective update, and the
\* next change of the same item, to the mohave price, with none.
C32_Witness ==
  /\ pcpc = "done"
  /\ pccalls = 2
  /\ Len(hsRequests) = 1
  /\ HasMohavePriceAnchor(pcargs.lineItemProperties)
  /\ pcargs.hsValue = pcargs.lineItemProperties.mohave_price
  /\ hsRequests[1].id = pcargs.lineItemProperties.hs_object_id

\* C33: the corrective update is one request that sets the price of the
\* line item of the event to the mohave price, and nothing else.
C33_RevertPatchesItemPrice ==
  [][Len(hsRequests') > Len(hsRequests) =>
       hsRequests' = Append(hsRequests,
         [object |-> "line_items",
          id |-> pcargs.lineItemProperties.hs_object_id,
          body |-> [properties |->
                      [price |-> pcargs.lineItemProperties.mohave_price]]])]_vars

\* C34: the marker is stored and the corrective update issued only for
\* items of a deal whose purchasing contract id is the configured one, 150.
C34_OverrideOnlyForContract ==
  [][(pcmarkers' # pcmarkers \/ hsRequests' # hsRequests) =>
       pcargs.purchasingContractId = "150"]_vars

----------------------------------------------------------------------------
(* Claims about the line-item aggregation *)

\* The ids of the items a returned list holds that came from source from.
IdsFrom(items, from) ==
  LET Came(item) == item.from = from
      kept == SelectSeq(items, Came)
  IN  [i \in 1..Len(kept) |-> kept[i].id]

\* C29: getDealItemsDataForProcessing fetches every item of the deal other
\* than the one whose snapshot it was given, whatever the earlier fetches
\* answered: an item whose fetch fails with a Not Found error is in neither
\* list, an item whose fetch fails otherwise is in failedItems, and every
\* item whose fetch succeeds is in items.
C29_FetchErrorsDoNotAbort ==
  aggpc = "done" =>
    LET Other(id) == ~aggargs.hasLineItemProperties \/ id # "i1"
        Ok(id) == aggargs.fetch[id] = "ok"
        Failed(id) == aggargs.fetch[id] = "error"
        others == SelectSeq(aggargs.dealLineItems, Other)
    IN  /\ aggdata.fetched = others
        /\ aggdata.failedItems = SelectSeq(others, Failed)
        /\ IdsFrom(aggdata.items, "hubspot") = SelectSeq(others, Ok)

\* The fetch of the first item failed and the fetch of the second reported
\* Not Found: the first is listed as failed, the second was still fetched
\* and is in neither list.
C29_Witness ==
  /\ aggpc = "done"
  /\ aggargs.dealLineItems = <<"i1", "i2">>
  /\ ~aggargs.hasLineItemProperties
  /\ aggargs.fetch["i1"] = "error"
  /\ aggargs.fetch["i2"] = "notFound"
  /\ aggdata.failedItems = <<"i1">>
  /\ aggdata.fetched = <<"i1", "i2">>
  /\ aggdata.items = <<>>

\* C30: when the call is given the snapshot of the event's item and the
\* source is the creation or the property-change workflow, the returned
\* items hold that item exactly once, taken from the snapshot, and the item
\* is not fetched from HubSpot.
C30_SnapshotItemOnceNotFetched ==
  (/\ aggpc = "done"
   /\ aggargs.hasLineItemProperties
   /\ aggargs.source \in {"itemCreate", "itemPropChange"}) =>
    /\ Cardinality({i \in 1..Len(aggdata.items) :
                      aggdata.items[i].id = "i1"}) = 1
    /\ \A i \in 1..Len(aggdata.items) :
         aggdata.items[i].id = "i1" => aggdata.items[i].from = "snapshot"
    /\ \A i \in 1..Len(aggdata.fetched) : aggdata.fetched[i] # "i1"

\* A property-change call for a deal that lists the event's item after
\* another one: the snapshot comes first, the other item is fetched.
C30_Witness ==
  /\ aggpc = "done"
  /\ aggargs.hasLineItemProperties
  /\ aggargs.source = "itemPropChange"
  /\ aggargs.dealLineItems = <<"i2", "i1">>
  /\ aggdata.items = <<[id |-> "i1", from |-> "snapshot"],
                       [id |-> "i2", from |-> "hubspot"]>>
  /\ aggdata.fetched = <<"i2">>

----------------------------------------------------------------------------
(* Claims about the line-item mapping *)

\* The item the call was given of which a sorted item is the copy.
OriginalOf(item) ==
  mitems[CHOOSE i \in 1..Len(mitems) :
           mitems[i].hs_object_id = item.hs_object_id]
Positioned(item) == item.hs_position_on_quote.kind = "decimal"
GivenPosition(item) ==
  item.hs_position_on_quote.digits \div 10^item.hs_position_on_quote.scale
IsPlaceholderCase(item) ==
  item.netsuite_id = PLACEHOLDER_ITEM \/ ~Truthy(item.netsuite_id)

\* C17: the call returns one opportunity item per line item, in ascending
\* order of hs_position_on_quote.
C17_OnePerItemAscending ==
  mpc = "done" =>
    /\ Len(mout) = Len(mitems)
    /\ \A i, j \in 1..Len(msorted) :
         (/\ i < j
          /\ Positioned(OriginalOf(msorted[i]))
          /\ Positioned(OriginalOf(msorted[j])))
           => GivenPosition(OriginalOf(msorted[i]))
                <= GivenPosition(OriginalOf(msorted[j]))

\* C18: in the sorted items every item without hs_position_on_quote comes
\* after every item that has one, whatever the positions are.
C18_MissingPositionLast ==
  mpc = "done" =>
    \A i, j \in 1..Len(msorted) :
      (i < j /\ ~Positioned(OriginalOf(msorted[i])))
        => ~Positioned(OriginalOf(msorted[j]))

\* Two property values stand for different numbers.
DiffersByValue(a, b) ==
  \/ a.kind # b.kind
  \/ a.kind = "decimal" /\ a.digits * 10^b.scale # b.digits * 10^a.scale

\* unitCost x quantity in cents, rounded half-up
HalfUpCents(cost, quantity) ==
  IF cost.kind # "decimal" THEN 0
  ELSE (2 * cost.digits * quantity * 100 + 10^cost.scale)
         \div (2 * 10^cost.scale)

\* C19: a line item without netsuite_id, or with the placeholder id 33575,
\* becomes a placeholder record (item 33575, with the item's description)
\* whose costestimate is unit cost x quantity rounded half-up to two
\* decimals.
C19_PlaceholderCostRoundedHalfUp ==
  mpc = "done" =>
    \A i \in 1..Len(mout) :
      LET item == OriginalOf(msorted[i])
      IN  IsPlaceholderCase(item) =>
            /\ mout[i].itemId = PLACEHOLDER_ITEM
            /\ Truthy(item.description)
                 => mout[i].description = item.description
            /\ mout[i].hasCostEstimate
            /\ mout[i].costestimate =
                 HalfUpCents(item.hs_cost_of_goods_sold, QuantityOf(item))

\* C20: for an item of the catalog the custom cost estimate is emitted only
\* if the unit cost differs in value from ns_product_cost, and the price
\* override only if the price differs in value from ns_product_price, also
\* for items that went through validateAndCleanLineItem.
C20_OverridesOnlyOnDifference ==
  mpc = "done" =>
    \A i \in 1..Len(mout) :
      LET item == OriginalOf(msorted[i])
      IN  ~IsPlaceholderCase(item) =>
            /\ mout[i].hasCostEstimateType
                 => DiffersByValue(item.hs_cost_of_goods_sold,
                                   item.ns_product_cost)
            /\ mout[i].hasPrice
                 => DiffersByValue(item.price, item.ns_product_price)

====
